---- MODULE Spec2Model ----
(***************************************************************************)
(* A model of the SEEDS Revised superpixel engine (src/lib/SeedsRevised.h, *)
(* src/lib/SeedsRevised.cpp): the constructors and the auto-sizing search, *)
(* the label grid and its level transitions, the per-level histograms and  *)
(* pixel counts, the block and pixel updates with their topology guard,    *)
(* and the sweep schedule of iterate().                                    *)
(*                                                                         *)
(* Arrays are functions from 0-based indices; pixels and histograms are    *)
(* indexed by the level itself (the source indexes them by level - 1).     *)
(* The build modelled is the default one: MEMORY defined, HEURISTIC_MEMORY,*)
(* UNIFORM and DEBUG not defined.  Scores are float in the source; the     *)
(* model computes them exactly, as fractions <<numerator, denominator>>    *)
(* with a positive denominator.                                            *)
(***************************************************************************)
EXTENDS Integers, Sequences, FiniteSets, TLC

VARIABLES
    pc,                         \* position of the client / of iterate()
    ctor,                       \* the constructor call that built the engine
    width, height,              \* SEEDSRevised::width, height
    numberOfLevels, minimumBlockWidth, minimumBlockHeight,
    numberOfBins, neighborhoodSize, minimumConfidence,
    minimumNumberOfSublabels,
    image,                      \* the input image: the 8-bit samples of every pixel
    histogramBins,              \* bin index of every pixel
    currentLabels, spatialMemory,
    currentLevel, currentBlockWidthNumber, currentBlockHeightNumber,
    superpixelWidthNumber, superpixelHeightNumber,
    pixels, histograms, histogramSize,
    iterations, iteration, iPos, jPos,   \* argument and loop variables of iterate()
    lastMove,                   \* the move the last examination applied, if any
    examined,                   \* per level, the cells iterate() has examined
    log,                        \* the moves applied since the construction
    first,                      \* the outcome of an earlier run on the same input
    calls,                      \* number of calls the client has made
    spatialWeight,              \* SEEDSRevisedMeanPixels::spatialWeight
    means,                      \* means[1]: per superpixel, the sums of the features
    initializedMeans,           \* SEEDSRevisedMeanPixels::initializedMeans
    meansInitializations        \* number of times initializeMeans() has run

configVars == <<ctor, width, height, numberOfLevels, minimumBlockWidth,
                minimumBlockHeight, numberOfBins, neighborhoodSize,
                minimumConfidence, minimumNumberOfSublabels, image>>
labelVars == <<currentLabels, spatialMemory, currentLevel,
               currentBlockWidthNumber, currentBlockHeightNumber,
               superpixelWidthNumber, superpixelHeightNumber>>
statVars == <<histogramBins, pixels, histograms, histogramSize>>
loopVars == <<iterations, iteration, iPos, jPos>>
ghostVars == <<lastMove, examined, log, first, calls>>
meanVars == <<spatialWeight, means, initializedMeans, meansInitializations>>
vars == <<pc, configVars, labelVars, statVars, loopVars, ghostVars, meanVars>>

---------------------------------------------------------------------------
(* Bounds of the model.                                                    *)

\* Equalized binning is explored for 1..MaxBinCount bins per channel.
MaxBinCount == 4
\* iterate(n) is called with n in 0..MaxIterations.
MaxIterations == 1
\* Number of bins per channel (single-channel images: histogramSize = bins).
NumBins == 2
\* The constructors are explored for images of 1..MaxDim x 1..MaxDim pixels.
MaxDim == 9
\* Desired numbers of superpixels 0..MaxDesired for the auto-sizing constructor.
MaxDesired == 5

---------------------------------------------------------------------------
(* Small helpers.                                                          *)

Min(a, b) == IF a < b THEN a ELSE b
Max(a, b) == IF a > b THEN a ELSE b
Abs(a) == IF a < 0 THEN -a ELSE a

RECURSIVE Pow(_, _)
Pow(b, e) == IF e <= 0 THEN 1 ELSE b * Pow(b, e - 1)

\* The array lab with the cells of T overwritten by v.
SetCells(lab, T, v) ==
    [r \in DOMAIN lab |->
        [c \in DOMAIN lab[r] |-> IF <<r, c>> \in T THEN v ELSE lab[r][c]]]

RECURSIVE SumOver(_, _)
SumOver(S, f) ==
    IF S = {} THEN 0
    ELSE LET x == CHOOSE y \in S : TRUE
         IN f[x] + SumOver(S \ {x}, f)

---------------------------------------------------------------------------
(* Pyramid geometry.                                                       *)

\* A variant of the block width that doubles once more; C8 does not hold of it.
getBlockWidthOf_Doubled(mbw, level) == mbw * Pow(2, level)

getBlockWidthOf(mbw, level) == mbw * Pow(2, level - 1)
getBlockHeightOf(mbh, level) == mbh * Pow(2, level - 1)

getBlockWidth(level) == getBlockWidthOf(minimumBlockWidth, level)
getBlockHeight(level) == getBlockHeightOf(minimumBlockHeight, level)
getBlockWidthNumber(level) == width \div getBlockWidth(level)
getBlockHeightNumber(level) == height \div getBlockHeight(level)

getNumberOfSuperpixels ==
    getBlockHeightNumber(numberOfLevels) * getBlockWidthNumber(numberOfLevels)

\* C++ integer division and remainder truncate towards zero.
CDiv(a, b) == IF a >= 0 THEN a \div b ELSE -((-a) \div b)
CMod(a, b) == a - b * CDiv(a, b)

getSuperpixelIFromLabel(label) == CDiv(label, superpixelWidthNumber)
getSuperpixelJFromLabel(label) == CMod(label, superpixelWidthNumber)

---------------------------------------------------------------------------
(* Constructors.                                                           *)

\* Candidate minimum block sizes and level counts of the auto-sizing search.
minimumBlockWidths == <<2, 3, 4>>
minimumBlockHeights == <<2, 3, 4>>
maxLevels == 12

\* floor(width/(w*2^(l-1))) * floor(height/(h*2^(l-1))), as the search computes it.
AutoSuperpixels(W, H, w, h, l) ==
    (W \div (w * Pow(2, l - 1))) * (H \div (h * Pow(2, l - 1)))

\* The candidates in the order the three nested loops visit them.
AutoInner(w, h) == [k \in 1..(maxLevels - 1) |-> <<w, h, k + 1>>]
AutoMiddle(w) ==
    LET row(hi) == IF Abs(w - minimumBlockHeights[hi]) > 1 THEN <<>>
                   ELSE AutoInner(w, minimumBlockHeights[hi])
    IN row(1) \o row(2) \o row(3)
AutoCandidates ==
    AutoMiddle(minimumBlockWidths[1]) \o AutoMiddle(minimumBlockWidths[2])
        \o AutoMiddle(minimumBlockWidths[3])

\* |desired - superpixels| of a candidate <<w, h, l>>.
AutoDifference(cand, W, H, desired) ==
    Abs(desired - AutoSuperpixels(W, H, cand[1], cand[2], cand[3]))

\* A variant of the test of the loop body that also replaces the best
\* candidate by an equally good one; C10 does not hold of it.
AutoBetter_OrEqual(best, cand, W, H, desired) ==
    AutoDifference(cand, W, H, desired) <= best.minDifference \/ best.minDifference < 0

\* The test of the loop body: the candidate replaces the best one so far
\* when it is strictly better, or when there is none yet.
AutoBetter(best, cand, W, H, desired) ==
    AutoDifference(cand, W, H, desired) < best.minDifference \/ best.minDifference < 0

\* The loop over the candidates, from the k-th on.
RECURSIVE AutoScan(_, _, _, _, _)
AutoScan(best, k, W, H, desired) ==
    IF k > Len(AutoCandidates) THEN best
    ELSE IF AutoBetter(best, AutoCandidates[k], W, H, desired)
    THEN AutoScan([minDifference |-> AutoDifference(AutoCandidates[k], W, H, desired),
                   minLevels |-> AutoCandidates[k][3],
                   minBlockWidth |-> AutoCandidates[k][1],
                   minBlockHeight |-> AutoCandidates[k][2]],
                  k + 1, W, H, desired)
    ELSE AutoScan(best, k + 1, W, H, desired)

\* The selection of SEEDSRevised(image, desiredNumberOfSuperpixels, ...).
AutoSize(W, H, desired) ==
    AutoScan([minDifference |-> -1, minLevels |-> 0,
              minBlockWidth |-> 0, minBlockHeight |-> 0], 1, W, H, desired)

\* construct(image, numberOfBins, numberOfLevels, minimumBlockWidth,
\*           minimumBlockHeight, neighborhoodSize, minimumConfidence)
construct(nBins, nLevels, mbw, mbh, nSize, mConf) ==
    [numberOfLevels |-> nLevels, minimumBlockWidth |-> mbw,
     minimumBlockHeight |-> mbh, numberOfBins |-> nBins,
     minimumConfidence |-> mConf, neighborhoodSize |-> nSize]

\* SEEDSRevised(image, numberOfLevels, minimumBlockWidth, minimumBlockHeight,
\*              numberOfBins, neighborhoodSize, minimumConfidence)
SEEDSRevisedExplicit(nLevels, mbw, mbh, nBins, nSize, mConf) ==
    construct(nBins, nLevels, mbw, mbh, nSize, mConf)

\* SEEDSRevised(image, desiredNumberOfSuperpixels, numberOfBins, ...)
SEEDSRevisedAuto(W, H, desired, nBins, nSize, mConf) ==
    LET sel == AutoSize(W, H, desired)
    IN construct(nBins, sel.minLevels, sel.minBlockWidth, sel.minBlockHeight,
                 nSize, mConf)

\* SEEDSRevisedMeanPixels(image, numberOfLevels, minimumBlockWidth,
\*     minimumBlockHeight, numberOfBins, ...) : SEEDSRevised(image, numberOfBins,
\*     numberOfLevels, minimumBlockWidth, minimumBlockHeight, ...)
SEEDSRevisedMeanPixelsExplicit(nLevels, mbw, mbh, nBins, nSize, mConf) ==
    SEEDSRevisedExplicit(nBins, nLevels, mbw, mbh, nSize, mConf)

\* SEEDSRevisedMeanPixels(image, desiredNumberOfSuperpixels, numberOfBins, ...)
SEEDSRevisedMeanPixelsAuto(W, H, desired, nBins, nSize, mConf) ==
    SEEDSRevisedAuto(W, H, desired, nBins, nSize, mConf)

\* The assertions at the end of the auto-sizing search.
autoSizeAsserts(sel) ==
    /\ sel.minDifference >= 0
    /\ sel.minLevels >= 2
    /\ sel.minBlockWidth > 0
    /\ sel.minBlockHeight > 0

\* The assertion of construct() on the channels of the image.
channelsAssert(channels) == channels = 1 \/ channels = 3

\* The assertions of the mean-pixels constructors on spatialWeight.
spatialWeightAsserts(sw) == sw[1] >= 0 /\ sw[1] <= sw[2]

\* All the assertions a constructor call meets hold.
constructorAsserts(c, W, H) ==
    /\ c.mode = "auto" =>
          \A sel \in {AutoSize(W, H, c.desiredNumberOfSuperpixels)} : autoSizeAsserts(sel)
    /\ channelsAssert(c.channels)
    /\ c.kind = "SEEDSRevisedMeanPixels" => spatialWeightAsserts(c.spatialWeight)

\* The engine fields a constructor call leaves behind.
Constructed(c, W, H) ==
    CASE c.kind = "SEEDSRevised" /\ c.mode = "explicit" ->
            SEEDSRevisedExplicit(c.numberOfLevels, c.minimumBlockWidth,
                c.minimumBlockHeight, c.numberOfBins, c.neighborhoodSize,
                c.minimumConfidence)
      [] c.kind = "SEEDSRevised" /\ c.mode = "auto" ->
            SEEDSRevisedAuto(W, H, c.desiredNumberOfSuperpixels, c.numberOfBins,
                c.neighborhoodSize, c.minimumConfidence)
      [] c.kind = "SEEDSRevisedMeanPixels" /\ c.mode = "explicit" ->
            SEEDSRevisedMeanPixelsExplicit(c.numberOfLevels, c.minimumBlockWidth,
                c.minimumBlockHeight, c.numberOfBins, c.neighborhoodSize,
                c.minimumConfidence)
      [] OTHER ->
            SEEDSRevisedMeanPixelsAuto(W, H, c.desiredNumberOfSuperpixels,
                c.numberOfBins, c.neighborhoodSize, c.minimumConfidence)

---------------------------------------------------------------------------
(* Label grid and level transition.                                        *)

\* The cells one pass of the in-place loop of goDownOneLevel writes for the
\* parent (i, j): its four children, and for a parent in the last row or
\* column the remainder rows, columns and corner of the finer grid.
goDownTargets(i, j, bhn, bwn, newBhn, newBwn) ==
    {<<2 * i, 2 * j>>, <<2 * i + 1, 2 * j>>, <<2 * i, 2 * j + 1>>,
     <<2 * i + 1, 2 * j + 1>>}
    \cup (IF i = bhn - 1 /\ j = bwn - 1
          THEN {<<k, l>> : k \in (2 * i + 2)..(newBhn - 1),
                           l \in (2 * j + 2)..(newBwn - 1)}
          ELSE {})
    \cup (IF i = bhn - 1
          THEN {<<k, l>> : k \in (2 * i + 2)..(newBhn - 1),
                           l \in {2 * j, 2 * j + 1}}
          ELSE {})
    \cup (IF j = bwn - 1
          THEN {<<k, l>> : k \in {2 * i, 2 * i + 1},
                           l \in (2 * j + 2)..(newBwn - 1)}
          ELSE {})

\* Variant of goDownBlocks that visits the parents from the first one to the
\* last, so that a parent can be overwritten by the children of an earlier
\* one before it is read.
RECURSIVE goDownBlocks_Ascending(_, _, _, _, _, _)
goDownBlocks_Ascending(lab, n, bhn, bwn, newBhn, newBwn) ==
    IF n <= 0 THEN lab
    ELSE LET i == (bhn * bwn - n) \div bwn
             j == (bhn * bwn - n) % bwn
         IN goDownBlocks_Ascending(
                SetCells(lab, goDownTargets(i, j, bhn, bwn, newBhn, newBwn), lab[i][j]),
                n - 1, bhn, bwn, newBhn, newBwn)

\* The loop over the parents, from the last one (n = bhn*bwn) down to the
\* first, each pass reading the parent's label from the array it writes to.
RECURSIVE goDownBlocks(_, _, _, _, _, _)
goDownBlocks(lab, n, bhn, bwn, newBhn, newBwn) ==
    IF n <= 0 THEN lab
    ELSE LET i == (n - 1) \div bwn
             j == (n - 1) % bwn
         IN goDownBlocks(
                SetCells(lab, goDownTargets(i, j, bhn, bwn, newBhn, newBwn), lab[i][j]),
                n - 1, bhn, bwn, newBhn, newBwn)

\* A variant of the row extent in which the last row of blocks is not widened
\* to the image border; C4 does not hold of it.
blockRowsAtPixelLevel_NotWidened(i, bhn, mbh, H) ==
    (mbh * i)..(mbh * i + mbh - 1)

\* The pixel rows (columns) block i of the level-1 grid is stamped onto.
blockRowsAtPixelLevel(i, bhn, mbh, H) ==
    (mbh * i)..((IF i = bhn - 1 THEN H ELSE mbh * i + mbh) - 1)
blockColsAtPixelLevel(j, bwn, mbw, W) ==
    (mbw * j)..((IF j = bwn - 1 THEN W ELSE mbw * j + mbw) - 1)

\* The descent to level 0: every level-1 block stamps the label it had
\* (blockLabels, a copy) onto the pixels of its extent.
goDownPixels(lab, bhn, bwn, mbh, mbw, H, W) ==
    [k \in DOMAIN lab |->
        [l \in DOMAIN lab[k] |->
            LET owners == {b \in (0..(bhn - 1)) \X (0..(bwn - 1)) :
                              /\ k \in blockRowsAtPixelLevel(b[1], bhn, mbh, H)
                              /\ l \in blockColsAtPixelLevel(b[2], bwn, mbw, W)}
            IN IF owners = {} THEN lab[k][l]
               ELSE LET b == CHOOSE o \in owners : TRUE IN lab[b[1]][b[2]]]]

\* goDownOneLevel(): the level, the grid size and the labels after it, from
\* those before it.
goDownOneLevel(lab, level, bhn, bwn) ==
    LET newLevel == level - 1
    IN IF newLevel > 0
       THEN LET newBwn == getBlockWidthNumber(newLevel)
                newBhn == getBlockHeightNumber(newLevel)
            IN [currentLevel |-> newLevel,
                currentLabels |-> goDownBlocks(lab, bhn * bwn, bhn, bwn, newBhn, newBwn),
                currentBlockWidthNumber |-> newBwn,
                currentBlockHeightNumber |-> newBhn]
       ELSE IF newLevel = 0
       THEN [currentLevel |-> newLevel,
             currentLabels |-> goDownPixels(lab, bhn, bwn, minimumBlockHeight,
                                            minimumBlockWidth, height, width),
             currentBlockWidthNumber |-> width,
             currentBlockHeightNumber |-> height]
       ELSE [currentLevel |-> newLevel, currentLabels |-> lab,
             currentBlockWidthNumber |-> bwn, currentBlockHeightNumber |-> bhn]

\* A variant of the first labels that numbers the level-L cells column by
\* column; C13 does not hold of it.
initialLabels_ColumnMajor ==
    LET sHn == getBlockHeightNumber(numberOfLevels)
        sWn == getBlockWidthNumber(numberOfLevels)
    IN [i \in 0..(height - 1) |-> [j \in 0..(width - 1) |->
            IF i < sHn /\ j < sWn THEN j * sHn + i ELSE -1]]

\* The labels initializeLabels() writes before its descent: row-major labels
\* on the level-L cells, -1 everywhere else.
initialLabels ==
    LET sHn == getBlockHeightNumber(numberOfLevels)
        sWn == getBlockWidthNumber(numberOfLevels)
    IN [i \in 0..(height - 1) |-> [j \in 0..(width - 1) |-> IF i < sHn /\ j < sWn THEN i * sWn + j ELSE -1]]

\* initializeLabels(): the label state it leaves.
initializeLabels ==
    goDownOneLevel(initialLabels, numberOfLevels,
                   getBlockHeightNumber(numberOfLevels),
                   getBlockWidthNumber(numberOfLevels))

---------------------------------------------------------------------------
(* Statistics accumulator: initializeHistograms().                         *)

\* Equalized binning: the pixels sampled (every 5th row and column), the
\* integral array of their values, the bin height and the bin of a value.
sampleStep == 5
samplePixels ==
    {p \in (0..(height - 1)) \X (0..(width - 1)) :
        p[1] % sampleStep = 0 /\ p[2] % sampleStep = 0}
integralCount(v) == Cardinality({p \in samplePixels : image[p[1]][p[2]] <= v})
\* Variant of equiHeight: ceil(count / numberOfBins).
equiHeight_NoPlusOne ==
    (Cardinality(samplePixels) + numberOfBins - 1) \div numberOfBins

equiHeight ==
    (Cardinality(samplePixels) + 1 + numberOfBins - 1) \div numberOfBins
binOfValue(v) == integralCount(v) \div equiHeight

initialHistogramBins ==
    [i \in 0..(height - 1) |-> [j \in 0..(width - 1) |-> binOfValue(image[i][j])]]

\* A variant of the level-1 extent in which the last row and column of blocks
\* are not widened to the image border; C3 does not hold of it.
histogramExtent_NotWidened(i, j) ==
    ((i * minimumBlockHeight)..((i + 1) * minimumBlockHeight - 1))
        \X ((j * minimumBlockWidth)..((j + 1) * minimumBlockWidth - 1))

\* The pixels the level-1 block (i, j) is counted over.
histogramExtent(i, j) ==
    LET bhn == getBlockHeightNumber(1)
        bwn == getBlockWidthNumber(1)
        blockHeightEnd == IF i = bhn - 1 THEN height ELSE (i + 1) * minimumBlockHeight
        blockWidthEnd == IF j = bwn - 1 THEN width ELSE (j + 1) * minimumBlockWidth
    IN ((i * minimumBlockHeight)..(blockHeightEnd - 1))
           \X ((j * minimumBlockWidth)..(blockWidthEnd - 1))

\* Level 1: an exhaustive scan of each block's extent.
levelOneStatistics(bins, hSize) ==
    [pixels |->
        [i \in 0..(getBlockHeightNumber(1) - 1) |-> [j \in 0..(getBlockWidthNumber(1) - 1) |-> Cardinality(histogramExtent(i, j))]],
     histograms |->
        [i \in 0..(getBlockHeightNumber(1) - 1) |-> [j \in 0..(getBlockWidthNumber(1) - 1) |-> [k \in 0..(hSize - 1) |->
                 Cardinality({p \in histogramExtent(i, j) : bins[p[1]][p[2]] = k})]]]]

\* Bin k of every block of a level.
binPlane(h, k) == [a \in DOMAIN h |-> [b \in DOMAIN h[a] |-> h[a][b][k]]]

\* Variant of sumOfChildren that adds the four children only and leaves the
\* remainder blocks of the level below out.
sumOfChildren_NoRemainder(below, i, j, bhn, bwn, bhnBelow, bwnBelow) ==
    below[2 * i][2 * j] + below[2 * i + 1][2 * j]
    + below[2 * i][2 * j + 1] + below[2 * i + 1][2 * j + 1]

\* Level k > 1: the four children of block (i, j) plus, for the last row,
\* column and corner, the remainder blocks of the level below.
sumOfChildren(below, i, j, bhn, bwn, bhnBelow, bwnBelow) ==
    below[2 * i][2 * j] + below[2 * i + 1][2 * j]
    + below[2 * i][2 * j + 1] + below[2 * i + 1][2 * j + 1]
    + (IF i = bhn - 1 /\ 2 * i + 2 < bhnBelow
       THEN below[2 * i + 2][2 * j] + below[2 * i + 2][2 * j + 1] ELSE 0)
    + (IF j = bwn - 1 /\ 2 * j + 2 < bwnBelow
       THEN below[2 * i][2 * j + 2] + below[2 * i + 1][2 * j + 2] ELSE 0)
    + (IF /\ i = bhn - 1 /\ j = bwn - 1
          /\ 2 * i + 2 < bhnBelow /\ 2 * j + 2 < bwnBelow
       THEN below[2 * i + 2][2 * j + 2] ELSE 0)

higherLevelStatistics(statsBelow, level, hSize) ==
    LET bhn == getBlockHeightNumber(level)
        bwn == getBlockWidthNumber(level)
        bhnBelow == getBlockHeightNumber(level - 1)
        bwnBelow == getBlockWidthNumber(level - 1)
    IN [pixels |->
            [i \in 0..(bhn - 1) |-> [j \in 0..(bwn - 1) |->
                sumOfChildren(statsBelow.pixels,
                              i, j, bhn, bwn, bhnBelow, bwnBelow)]],
        histograms |->
            [i \in 0..(bhn - 1) |-> [j \in 0..(bwn - 1) |-> [k \in 0..(hSize - 1) |->
                sumOfChildren(binPlane(statsBelow.histograms, k),
                              i, j, bhn, bwn, bhnBelow, bwnBelow)]]]]

\* The levels 1..numberOfLevels, built bottom-up.
RECURSIVE buildStatistics(_, _, _, _)
buildStatistics(acc, level, bins, hSize) ==
    IF level > numberOfLevels THEN acc
    ELSE IF level = 1
    THEN buildStatistics(<<levelOneStatistics(bins, hSize)>>, 2, bins, hSize)
    ELSE buildStatistics(Append(acc, higherLevelStatistics(acc[level - 1], level, hSize)),
                         level + 1, bins, hSize)

\* initializeHistograms(): the statistics state it leaves (single channel).
initializeHistograms ==
    LET hSize == Pow(numberOfBins, 1)
        bins == initialHistogramBins
        stats == buildStatistics(<<>>, 1, bins, hSize)
    IN [histogramSize |-> hSize,
        histogramBins |-> bins,
        pixels |-> [level \in 1..numberOfLevels |-> stats[level].pixels],
        histograms |-> [level \in 1..numberOfLevels |-> stats[level].histograms]]

---------------------------------------------------------------------------
(* Scores, as exact fractions <<numerator, denominator>>, denominator > 0. *)

FZero == <<0, 1>>
RECURSIVE GCD(_, _)
GCD(a, b) == IF b = 0 THEN a ELSE GCD(b, a % b)
FAdd(a, b) == <<a[1] * b[2] + b[1] * a[2], a[2] * b[2]>>
FSub(a, b) == <<a[1] * b[2] - b[1] * a[2], a[2] * b[2]>>
FScale(a, n) == <<a[1] * n, a[2]>>
FGreaterOver(a, b, g) == a[1] * (b[2] \div g) > b[1] * (a[2] \div g)
FGreater(a, b) == FGreaterOver(a, b, GCD(a[2], b[2]))

\* The same arithmetic with the results in lowest terms.
FLowest(a, g) == IF g = 0 THEN a ELSE <<a[1] \div g, a[2] \div g>>
FReduce(a) == FLowest(a, GCD(Abs(a[1]), a[2]))
FTimes(a, b) == FReduce(<<a[1] * b[1], a[2] * b[2]>>)
FOver(a, n) == FReduce(<<a[1], a[2] * n>>)
FPlusOver(a, b, g) ==
    FReduce(<<a[1] * (b[2] \div g) + b[1] * (a[2] \div g), (a[2] \div g) * b[2]>>)
FPlus(a, b) == FPlusOver(a, b, GCD(a[2], b[2]))
FMinus(a, b) == FPlus(a, <<-b[1], b[2]>>)

\* Histogram intersection of block (iFrom, jFrom) of the current level with
\* its superpixel, the block's own contribution removed.
scoreCurrentBlockSegmentation(iFrom, jFrom, iSuperpixelFrom, jSuperpixelFrom) ==
    LET blockPixels == pixels[currentLevel][iFrom][jFrom]
        superpixelMinusBlockPixels ==
            pixels[numberOfLevels][iSuperpixelFrom][jSuperpixelFrom] - blockPixels
        hb == histograms[currentLevel][iFrom][jFrom]
        hs == histograms[numberOfLevels][iSuperpixelFrom][jSuperpixelFrom]
        term == [k \in 0..(histogramSize - 1) |->
                    IF hb[k] > 0 /\ hs[k] > hb[k]
                    THEN Min((hs[k] - hb[k]) * blockPixels,
                             hb[k] * superpixelMinusBlockPixels)
                    ELSE 0]
    IN <<SumOver(0..(histogramSize - 1), term), superpixelMinusBlockPixels * blockPixels>>

\* Histogram intersection of block (iFrom, jFrom) with the proposed superpixel.
scoreProposedBlockSegmentation(iFrom, jFrom, iSuperpixelTo, jSuperpixelTo) ==
    LET blockPixels == pixels[currentLevel][iFrom][jFrom]
        superpixelPixels == pixels[numberOfLevels][iSuperpixelTo][jSuperpixelTo]
        hb == histograms[currentLevel][iFrom][jFrom]
        hs == histograms[numberOfLevels][iSuperpixelTo][jSuperpixelTo]
        term == [k \in 0..(histogramSize - 1) |->
                    IF hb[k] > 0 /\ hs[k] > 0
                    THEN Min(hs[k] * blockPixels, hb[k] * superpixelPixels)
                    ELSE 0]
    IN <<SumOver(0..(histogramSize - 1), term), superpixelPixels * blockPixels>>

\* Share of the pixel's bin in the superpixel it belongs to / is proposed for.
scoreCurrentPixelSegmentation(iFrom, jFrom, iSuperpixelFrom, jSuperpixelFrom) ==
    <<histograms[numberOfLevels][iSuperpixelFrom][jSuperpixelFrom][histogramBins[iFrom][jFrom]],
      pixels[numberOfLevels][iSuperpixelFrom][jSuperpixelFrom]>>

scoreProposedPixelSegmentation(iFrom, jFrom, iSuperpixelTo, jSuperpixelTo) ==
    <<histograms[numberOfLevels][iSuperpixelTo][jSuperpixelTo][histogramBins[iFrom][jFrom]],
      pixels[numberOfLevels][iSuperpixelTo][jSuperpixelTo]>>

\* Variant of neighborhoodWindow: the square of side 2*neighborhoodSize + 1
\* around the pixel.
neighborhoodWindow_Square(iFrom, jFrom, iTo, jTo) ==
    LET iStart == Max(0, iFrom - neighborhoodSize)
        iEnd == Min(currentBlockHeightNumber, iFrom + neighborhoodSize + 1)
        jStart == Max(0, jFrom - neighborhoodSize)
        jEnd == Min(currentBlockWidthNumber, jFrom + neighborhoodSize + 1)
    IN (iStart..(iEnd - 1)) \X (jStart..(jEnd - 1))

\* The pixels of the window around the pixel and the pixel it moves towards.
neighborhoodWindow(iFrom, jFrom, iTo, jTo) ==
    LET iStart == Max(0, Min(iFrom, iTo) - neighborhoodSize)
        iEnd == Min(currentBlockHeightNumber, Max(iFrom, iTo) + neighborhoodSize + 1)
        jStart == Max(0, Min(jFrom, jTo) - neighborhoodSize)
        jEnd == Min(currentBlockWidthNumber, Max(jFrom, jTo) + neighborhoodSize + 1)
    IN (iStart..(iEnd - 1)) \X (jStart..(jEnd - 1))

countFrom(iFrom, jFrom, iTo, jTo) ==
    Cardinality({p \in neighborhoodWindow(iFrom, jFrom, iTo, jTo) :
                    currentLabels[p[1]][p[2]] = currentLabels[iFrom][jFrom]})
countTo(iFrom, jFrom, iTo, jTo) ==
    Cardinality({p \in neighborhoodWindow(iFrom, jFrom, iTo, jTo) :
                    /\ currentLabels[p[1]][p[2]] # currentLabels[iFrom][jFrom]
                    /\ currentLabels[p[1]][p[2]] = currentLabels[iTo][jTo]})

\* Variant of scorePixelUpdate with the difference taken the other way round.
scorePixelUpdate_Reversed(iFrom, jFrom, iTo, jTo, currentScore, proposedScore) ==
    IF neighborhoodSize > 0
    THEN FSub(FScale(currentScore, countFrom(iFrom, jFrom, iTo, jTo)),
              FScale(proposedScore, countTo(iFrom, jFrom, iTo, jTo)))
    ELSE FSub(currentScore, proposedScore)

\* The smoothing prior: the value a pixel move is judged by.
scorePixelUpdate(iFrom, jFrom, iTo, jTo, currentScore, proposedScore) ==
    IF neighborhoodSize > 0
    THEN FSub(FScale(proposedScore, countTo(iFrom, jFrom, iTo, jTo)),
              FScale(currentScore, countFrom(iFrom, jFrom, iTo, jTo)))
    ELSE FSub(proposedScore, currentScore)

---------------------------------------------------------------------------
(* Scores of SEEDSRevisedMeanPixels: distances of the pixel to the mean of *)
(* a superpixel, for images of one channel.                                *)

\* The per-pixel features means[0][i][j]: the sample, the column and the row.
pixelFeatures(i, j) == <<image[i][j], j, i>>

\* Variant of meansAfterUpdatePixel: the features leave the source
\* superpixel and are not added to the destination.
meansAfterUpdatePixel_SourceOnly(iFrom, jFrom, iSuperpixelFrom, jSuperpixelFrom, iSuperpixelTo, jSuperpixelTo) ==
    [means EXCEPT ![iSuperpixelFrom][jSuperpixelFrom] =
        [k \in 1..3 |-> @[k] - pixelFeatures(iFrom, jFrom)[k]]]

\* The part of SEEDSRevisedMeanPixels::updatePixel after the call of
\* SEEDSRevised::updatePixel: the features of the pixel leave the sums of the
\* source superpixel and join those of the destination.
meansAfterUpdatePixel(iFrom, jFrom, iSuperpixelFrom, jSuperpixelFrom, iSuperpixelTo, jSuperpixelTo) ==
    LET left == [means EXCEPT ![iSuperpixelFrom][jSuperpixelFrom] =
                     [k \in 1..3 |-> @[k] - pixelFeatures(iFrom, jFrom)[k]]]
    IN [left EXCEPT ![iSuperpixelTo][jSuperpixelTo] =
                     [k \in 1..3 |-> @[k] + pixelFeatures(iFrom, jFrom)[k]]]

\* initializeMeans(): per superpixel, the sums of the features of the pixels
\* whose label is the superpixel's.
initializeMeans(lab) ==
    [si \in 0..(superpixelHeightNumber - 1) |->
        [sj \in 0..(superpixelWidthNumber - 1) |->
            [k \in 1..3 |->
                LET members == {q \in (0..(height - 1)) \X (0..(width - 1)) :
                                   /\ getSuperpixelIFromLabel(lab[q[1]][q[2]]) = si
                                   /\ getSuperpixelJFromLabel(lab[q[1]][q[2]]) = sj}
                IN SumOver(members, [q \in members |-> pixelFeatures(q[1], q[2])[k]])]]]

colorNormalization == 255 * 255 * 1
spatialNormalization == height * height + width * width

\* The squared distance of feature k of pixel (iFrom, jFrom) to the mean of
\* superpixel (iSuperpixel, jSuperpixel): (means[1][..][k]/pixels - means[0][..][k])^2.
FSquare(difference) == FTimes(difference, difference)
squaredDifference(k, iFrom, jFrom, iSuperpixel, jSuperpixel) ==
    FSquare(FMinus(FReduce(<<means[iSuperpixel][jSuperpixel][k],
                             pixels[numberOfLevels][iSuperpixel][jSuperpixel]>>),
                   <<pixelFeatures(iFrom, jFrom)[k], 1>>))

\* The body shared by the two score functions of a pixel in mean mode.
colorScore(iFrom, jFrom, iSuperpixel, jSuperpixel) ==
    FOver(squaredDifference(1, iFrom, jFrom, iSuperpixel, jSuperpixel),
          colorNormalization)
spatialScore(iFrom, jFrom, iSuperpixel, jSuperpixel) ==
    FOver(FPlus(squaredDifference(2, iFrom, jFrom, iSuperpixel, jSuperpixel),
                squaredDifference(3, iFrom, jFrom, iSuperpixel, jSuperpixel)),
          spatialNormalization)
meanPixelScore(iFrom, jFrom, iSuperpixel, jSuperpixel) ==
    IF FGreater(spatialWeight, FZero)
    THEN FPlus(FTimes(FMinus(<<1, 1>>, spatialWeight),
                      colorScore(iFrom, jFrom, iSuperpixel, jSuperpixel)),
               FTimes(spatialWeight,
                      spatialScore(iFrom, jFrom, iSuperpixel, jSuperpixel)))
    ELSE colorScore(iFrom, jFrom, iSuperpixel, jSuperpixel)

\* SEEDSRevisedMeanPixels::scoreCurrentPixelSegmentation
meanScoreCurrentPixelSegmentation(iFrom, jFrom, iSuperpixelFrom, jSuperpixelFrom) ==
    meanPixelScore(iFrom, jFrom, iSuperpixelFrom, jSuperpixelFrom)

\* SEEDSRevisedMeanPixels::scoreProposedPixelSegmentation
meanScoreProposedPixelSegmentation(iFrom, jFrom, iSuperpixelTo, jSuperpixelTo) ==
    meanPixelScore(iFrom, jFrom, iSuperpixelTo, jSuperpixelTo)

\* SEEDSRevisedMeanPixels::scorePixelUpdate
meanScorePixelUpdate(iFrom, jFrom, iTo, jTo, currentScore, proposedScore) ==
    IF neighborhoodSize > 0
    THEN FMinus(FOver(currentScore, countFrom(iFrom, jFrom, iTo, jTo)),
                FOver(proposedScore, countTo(iFrom, jFrom, iTo, jTo)))
    ELSE FMinus(currentScore, proposedScore)

\* The virtual calls of performPixelUpdate().
virtualScoreCurrentPixelSegmentation(iFrom, jFrom, iSuperpixelFrom, jSuperpixelFrom) ==
    IF ctor.kind = "SEEDSRevisedMeanPixels"
    THEN meanScoreCurrentPixelSegmentation(iFrom, jFrom, iSuperpixelFrom, jSuperpixelFrom)
    ELSE scoreCurrentPixelSegmentation(iFrom, jFrom, iSuperpixelFrom, jSuperpixelFrom)
virtualScoreProposedPixelSegmentation(iFrom, jFrom, iSuperpixelTo, jSuperpixelTo) ==
    IF ctor.kind = "SEEDSRevisedMeanPixels"
    THEN meanScoreProposedPixelSegmentation(iFrom, jFrom, iSuperpixelTo, jSuperpixelTo)
    ELSE scoreProposedPixelSegmentation(iFrom, jFrom, iSuperpixelTo, jSuperpixelTo)
virtualScorePixelUpdate(iFrom, jFrom, iTo, jTo, currentScore, proposedScore) ==
    IF ctor.kind = "SEEDSRevisedMeanPixels"
    THEN meanScorePixelUpdate(iFrom, jFrom, iTo, jTo, currentScore, proposedScore)
    ELSE scorePixelUpdate(iFrom, jFrom, iTo, jTo, currentScore, proposedScore)

---------------------------------------------------------------------------
(* Topology guard.  The window around (iFrom, jFrom) is                    *)
(*     l11 l12 l13                                                         *)
(*     l21 l22 l23                                                         *)
(*     l31 l32 l33                                                         *)
(* read through the clamped indices; positions the source takes to lie     *)
(* outside the grid are replaced by -1.                                    *)

checkSplitVerticalForward(lab, iFrom, jFrom, iPlusOne, iMinusOne, jPlusOne, jMinusOne) ==
    LET l11 == IF iFrom = 0 \/ jFrom = 0 THEN -1 ELSE lab[iMinusOne][jMinusOne]
        l12 == IF iFrom = 0 THEN -1 ELSE lab[iMinusOne][jFrom]
        l13 == IF iFrom = 0 \/ jFrom = width - 1 THEN -1 ELSE lab[iMinusOne][jPlusOne]
        l21 == IF jFrom = 0 THEN -1 ELSE lab[iFrom][jMinusOne]
        l22 == lab[iFrom][jFrom]
        l23 == IF jFrom = width - 1 THEN -1 ELSE lab[iFrom][jPlusOne]
    IN \/ (l12 # l22 /\ l21 = l22 /\ l23 = l22)
       \/ (l11 # l22 /\ l12 = l22 /\ l21 = l22)
       \/ (l13 # l22 /\ l12 = l22 /\ l23 = l22)

checkSplitVerticalBackward(lab, iFrom, jFrom, iPlusOne, iMinusOne, jPlusOne, jMinusOne) ==
    LET l21 == IF jFrom = 0 THEN -1 ELSE lab[iFrom][jMinusOne]
        l22 == lab[iFrom][jFrom]
        l23 == IF jFrom = width - 1 THEN -1 ELSE lab[iFrom][jPlusOne]
        l31 == IF iFrom = height - 1 \/ jFrom = 0 THEN -1 ELSE lab[iPlusOne][jMinusOne]
        l32 == IF iFrom = height - 1 THEN -1 ELSE lab[iPlusOne][jFrom]
        l33 == IF iFrom = height - 1 \/ jFrom = width - 1 THEN -1
               ELSE lab[iPlusOne][jPlusOne]
    IN \/ (l32 # l22 /\ l21 = l22 /\ l23 = l22)
       \/ (l31 # l22 /\ l21 = l22 /\ l32 = l22)
       \/ (l33 # l22 /\ l32 = l22 /\ l23 = l22)

checkSplitHorizontalForward(lab, iFrom, jFrom, iPlusOne, iMinusOne, jPlusOne, jMinusOne) ==
    LET l11 == IF iFrom = 0 \/ jFrom = 0 THEN -1 ELSE lab[iMinusOne][jMinusOne]
        l12 == IF iFrom = 0 THEN -1 ELSE lab[iMinusOne][jFrom]
        l21 == IF jFrom = 0 THEN -1 ELSE lab[iFrom][jMinusOne]
        l22 == lab[iFrom][jFrom]
        l31 == IF iFrom = height - 1 \/ jFrom = 0 THEN -1 ELSE lab[iPlusOne][jMinusOne]
        l32 == IF iFrom = height - 1 THEN -1 ELSE lab[iPlusOne][jFrom]
    IN \/ (l21 # l22 /\ l12 = l22 /\ l32 = l22)
       \/ (l11 # l22 /\ l12 = l22 /\ l21 = l22)
       \/ (l31 # l22 /\ l21 = l22 /\ l32 = l22)

checkSplitHorizontalBackward(lab, iFrom, jFrom, iPlusOne, iMinusOne, jPlusOne, jMinusOne) ==
    LET l12 == IF iFrom = 0 THEN -1 ELSE lab[iMinusOne][jFrom]
        l13 == IF iFrom = 0 \/ jFrom = width - 1 THEN -1 ELSE lab[iMinusOne][jPlusOne]
        l22 == lab[iFrom][jFrom]
        l23 == IF jFrom = width - 1 THEN -1 ELSE lab[iFrom][jPlusOne]
        l32 == IF iFrom = height - 1 THEN -1 ELSE lab[iPlusOne][jFrom]
        l33 == IF iFrom = height - 1 \/ jFrom = width - 1 THEN -1
               ELSE lab[iPlusOne][jPlusOne]
    IN \/ (l23 # l22 /\ l12 = l22 /\ l32 = l22)
       \/ (l13 # l22 /\ l12 = l22 /\ l23 = l22)
       \/ (l33 # l22 /\ l23 = l22 /\ l32 = l22)

\* The guard of a direction: "VF", "VB", "HF", "HB".
checkSplit(dir, lab, iFrom, jFrom, iPlusOne, iMinusOne, jPlusOne, jMinusOne) ==
    CASE dir = "VF" ->
            checkSplitVerticalForward(lab, iFrom, jFrom, iPlusOne, iMinusOne, jPlusOne, jMinusOne)
      [] dir = "VB" ->
            checkSplitVerticalBackward(lab, iFrom, jFrom, iPlusOne, iMinusOne, jPlusOne, jMinusOne)
      [] dir = "HF" ->
            checkSplitHorizontalForward(lab, iFrom, jFrom, iPlusOne, iMinusOne, jPlusOne, jMinusOne)
      [] OTHER ->
            checkSplitHorizontalBackward(lab, iFrom, jFrom, iPlusOne, iMinusOne, jPlusOne, jMinusOne)

---------------------------------------------------------------------------
(* Block and pixel updates.                                                *)

\* Variant of Directions in which the order of the directions depends on
\* whether the program has run before.
Directions_ByHistory ==
    IF first.done THEN <<"HB", "HF", "VB", "VF">> ELSE <<"VF", "VB", "HF", "HB">>

Directions == <<"VF", "VB", "HF", "HB">>

NoMove == [kind |-> "none", level |-> 0, i |-> 0, j |-> 0,
           from |-> 0, to |-> 0, dir |-> "none"]

\* The cell a direction looks at, through the clamped indices.
neighbourOf(dir, i, j, iPlusOne, iMinusOne, jPlusOne, jMinusOne) ==
    CASE dir = "VF" -> <<iPlusOne, j>>
      [] dir = "VB" -> <<iMinusOne, j>>
      [] dir = "HF" -> <<i, jPlusOne>>
      [] OTHER -> <<i, jMinusOne>>

\* Variant of blockCandidate in which a later candidate replaces the best
\* one so far when their scores are equal.
blockCandidate_LaterEqualReplaces(best, dir, i, j, iPlusOne, iMinusOne, jPlusOne, jMinusOne, currentScore) ==
    LET to == neighbourOf(dir, i, j, iPlusOne, iMinusOne, jPlusOne, jMinusOne)
        labelTo == currentLabels[to[1]][to[2]]
    IN IF /\ labelTo # currentLabels[i][j]
          /\ ~checkSplit(dir, currentLabels, i, j, iPlusOne, iMinusOne, jPlusOne, jMinusOne)
       THEN LET iSuperpixelTo == getSuperpixelIFromLabel(labelTo)
                jSuperpixelTo == getSuperpixelJFromLabel(labelTo)
                proposedScore ==
                    scoreProposedBlockSegmentation(i, j, iSuperpixelTo, jSuperpixelTo)
            IN IF /\ FGreater(proposedScore, FAdd(currentScore, minimumConfidence))
                  /\ ~FGreater(best.bestScore, proposedScore)
               THEN [bestScore |-> proposedScore, iBest |-> to[1], jBest |-> to[2],
                     iSuperpixelBest |-> iSuperpixelTo, jSuperpixelBest |-> jSuperpixelTo,
                     dir |-> dir]
               ELSE best
       ELSE best

\* Variant of blockCandidate without the confidence margin.
blockCandidate_NoMargin(best, dir, i, j, iPlusOne, iMinusOne, jPlusOne, jMinusOne, currentScore) ==
    LET to == neighbourOf(dir, i, j, iPlusOne, iMinusOne, jPlusOne, jMinusOne)
        labelTo == currentLabels[to[1]][to[2]]
    IN IF /\ labelTo # currentLabels[i][j]
          /\ ~checkSplit(dir, currentLabels, i, j, iPlusOne, iMinusOne, jPlusOne, jMinusOne)
       THEN LET iSuperpixelTo == getSuperpixelIFromLabel(labelTo)
                jSuperpixelTo == getSuperpixelJFromLabel(labelTo)
                proposedScore ==
                    scoreProposedBlockSegmentation(i, j, iSuperpixelTo, jSuperpixelTo)
            IN IF /\ FGreater(proposedScore, currentScore)
                  /\ FGreater(proposedScore, best.bestScore)
               THEN [bestScore |-> proposedScore, iBest |-> to[1], jBest |-> to[2],
                     iSuperpixelBest |-> iSuperpixelTo, jSuperpixelBest |-> jSuperpixelTo,
                     dir |-> dir]
               ELSE best
       ELSE best

\* One of the four candidate tests of performBlockUpdate.
blockCandidate(best, dir, i, j, iPlusOne, iMinusOne, jPlusOne, jMinusOne, currentScore) ==
    LET to == neighbourOf(dir, i, j, iPlusOne, iMinusOne, jPlusOne, jMinusOne)
        labelTo == currentLabels[to[1]][to[2]]
    IN IF /\ labelTo # currentLabels[i][j]
          /\ ~checkSplit(dir, currentLabels, i, j, iPlusOne, iMinusOne, jPlusOne, jMinusOne)
       THEN LET iSuperpixelTo == getSuperpixelIFromLabel(labelTo)
                jSuperpixelTo == getSuperpixelJFromLabel(labelTo)
                proposedScore ==
                    scoreProposedBlockSegmentation(i, j, iSuperpixelTo, jSuperpixelTo)
            IN IF /\ FGreater(proposedScore, FAdd(currentScore, minimumConfidence))
                  /\ FGreater(proposedScore, best.bestScore)
               THEN [bestScore |-> proposedScore, iBest |-> to[1], jBest |-> to[2],
                     iSuperpixelBest |-> iSuperpixelTo, jSuperpixelBest |-> jSuperpixelTo,
                     dir |-> dir]
               ELSE best
       ELSE best

\* One of the four candidate tests of performPixelUpdate.
pixelCandidate(best, dir, i, j, iPlusOne, iMinusOne, jPlusOne, jMinusOne, currentScore) ==
    LET to == neighbourOf(dir, i, j, iPlusOne, iMinusOne, jPlusOne, jMinusOne)
        labelTo == currentLabels[to[1]][to[2]]
    IN IF /\ labelTo # currentLabels[i][j]
          /\ ~checkSplit(dir, currentLabels, i, j, iPlusOne, iMinusOne, jPlusOne, jMinusOne)
       THEN LET iSuperpixelTo == getSuperpixelIFromLabel(labelTo)
                jSuperpixelTo == getSuperpixelJFromLabel(labelTo)
                proposedScore ==
                    virtualScoreProposedPixelSegmentation(i, j, iSuperpixelTo, jSuperpixelTo)
                score == virtualScorePixelUpdate(i, j, to[1], to[2], currentScore,
                                                 proposedScore)
            IN IF FGreater(score, FZero) /\ FGreater(score, best.bestScore)
               THEN [bestScore |-> score, iBest |-> to[1], jBest |-> to[2],
                     iSuperpixelBest |-> iSuperpixelTo, jSuperpixelBest |-> jSuperpixelTo,
                     dir |-> dir]
               ELSE best
       ELSE best

someNeighbourDiffers(i, j, iPlusOne, iMinusOne, jPlusOne, jMinusOne) ==
    \/ currentLabels[iPlusOne][j] # currentLabels[i][j]
    \/ currentLabels[iMinusOne][j] # currentLabels[i][j]
    \/ currentLabels[i][jPlusOne] # currentLabels[i][j]
    \/ currentLabels[i][jMinusOne] # currentLabels[i][j]

\* Variant of the member-count rule of a block update that lets every block
\* go.
blockCountAllows_Always(i, j, iSuperpixelFrom, jSuperpixelFrom) == TRUE

\* The member-count rule of a block update.
blockCountAllows(i, j, iSuperpixelFrom, jSuperpixelFrom) ==
    (pixels[numberOfLevels][iSuperpixelFrom][jSuperpixelFrom]
        \div pixels[currentLevel][i][j]) > minimumNumberOfSublabels

\* A variant of the member-count rule of a pixel update that lets the last
\* pixel of a superpixel go; C5 does not hold of it.
pixelCountAllows_LastPixel(iSuperpixelFrom, jSuperpixelFrom) ==
    pixels[numberOfLevels][iSuperpixelFrom][jSuperpixelFrom] >= minimumNumberOfSublabels

\* The member-count rule of a pixel update.
pixelCountAllows(iSuperpixelFrom, jSuperpixelFrom) ==
    pixels[numberOfLevels][iSuperpixelFrom][jSuperpixelFrom] > minimumNumberOfSublabels

\* The decision of performBlockUpdate(i, j) for a block whose flag is set:
\* the best candidate, with bestScore = 0 when no move is to be made.
blockDecision(i, j) ==
    LET iPlusOne == Min(i + 1, currentBlockHeightNumber - 1)
        iMinusOne == Max(i - 1, 0)
        jPlusOne == Min(j + 1, currentBlockWidthNumber - 1)
        jMinusOne == Max(j - 1, 0)
        iSuperpixelFrom == getSuperpixelIFromLabel(currentLabels[i][j])
        jSuperpixelFrom == getSuperpixelJFromLabel(currentLabels[i][j])
        stay == [bestScore |-> FZero, iBest |-> i, jBest |-> j,
                 iSuperpixelBest |-> iSuperpixelFrom,
                 jSuperpixelBest |-> jSuperpixelFrom, dir |-> "none"]
    IN IF /\ someNeighbourDiffers(i, j, iPlusOne, iMinusOne, jPlusOne, jMinusOne)
          /\ blockCountAllows(i, j, iSuperpixelFrom, jSuperpixelFrom)
       THEN LET currentScore ==
                    scoreCurrentBlockSegmentation(i, j, iSuperpixelFrom, jSuperpixelFrom)
                \* the four tests in the order of the source
                candidate(b, d) == blockCandidate(b, d, i, j, iPlusOne, iMinusOne,
                                                  jPlusOne, jMinusOne, currentScore)
            IN candidate(candidate(candidate(candidate(stay, Directions[1]),
                                             Directions[2]), Directions[3]),
                         Directions[4])
       ELSE stay

\* The decision of performPixelUpdate(i, j) for a pixel whose flag is set.
pixelDecision(i, j) ==
    LET iPlusOne == Min(i + 1, height - 1)
        iMinusOne == Max(i - 1, 0)
        jPlusOne == Min(j + 1, width - 1)
        jMinusOne == Max(j - 1, 0)
        iSuperpixelFrom == getSuperpixelIFromLabel(currentLabels[i][j])
        jSuperpixelFrom == getSuperpixelJFromLabel(currentLabels[i][j])
        stay == [bestScore |-> FZero, iBest |-> i, jBest |-> j,
                 iSuperpixelBest |-> iSuperpixelFrom,
                 jSuperpixelBest |-> jSuperpixelFrom, dir |-> "none"]
    IN IF /\ someNeighbourDiffers(i, j, iPlusOne, iMinusOne, jPlusOne, jMinusOne)
          /\ pixelCountAllows(iSuperpixelFrom, jSuperpixelFrom)
       THEN LET currentScore ==
                    virtualScoreCurrentPixelSegmentation(i, j, iSuperpixelFrom,
                                                         jSuperpixelFrom)
                \* the four tests in the order of the source
                candidate(b, d) == pixelCandidate(b, d, i, j, iPlusOne, iMinusOne,
                                                  jPlusOne, jMinusOne, currentScore)
            IN candidate(candidate(candidate(candidate(stay, Directions[1]),
                                             Directions[2]), Directions[3]),
                         Directions[4])
       ELSE stay

\* Variant of markDirty that sets the flag of the moved cell only.
markDirty_CellOnly(mem, i, j, iPlusOne, iMinusOne, jPlusOne, jMinusOne) ==
    SetCells(mem, {<<i, j>>}, TRUE)

\* The dirty flags after an accepted move of cell (i, j).
markDirty(mem, i, j, iPlusOne, iMinusOne, jPlusOne, jMinusOne) ==
    SetCells(mem, {<<i, j>>, <<iPlusOne, j>>, <<iMinusOne, j>>,
                   <<i, jPlusOne>>, <<i, jMinusOne>>}, TRUE)

\* A variant of updateBlock() that moves the statistics of the block to the
\* destination superpixel but does not write the label; C2 does not hold of it.
updateBlock_LabelNotWritten(mem, iFrom, jFrom, iTo, jTo, iSuperpixelFrom, jSuperpixelFrom, iSuperpixelTo, jSuperpixelTo, iPlusOne, iMinusOne, jPlusOne, jMinusOne) ==
    LET blockPixels == pixels[currentLevel][iFrom][jFrom]
        blockHistogram == histograms[currentLevel][iFrom][jFrom]
        pixelsFrom == [pixels EXCEPT
                         ![numberOfLevels][iSuperpixelFrom][jSuperpixelFrom] = @ - blockPixels]
        histogramsFrom == [histograms EXCEPT
                         ![numberOfLevels][iSuperpixelFrom][jSuperpixelFrom] =
                             [k \in DOMAIN @ |-> @[k] - blockHistogram[k]]]
    IN [currentLabels |-> currentLabels,
        pixels |-> [pixelsFrom EXCEPT
                         ![numberOfLevels][iSuperpixelTo][jSuperpixelTo] = @ + blockPixels],
        histograms |-> [histogramsFrom EXCEPT
                         ![numberOfLevels][iSuperpixelTo][jSuperpixelTo] =
                             [k \in DOMAIN @ |-> @[k] + blockHistogram[k]]],
        spatialMemory |-> markDirty(mem, iFrom, jFrom, iPlusOne, iMinusOne, jPlusOne, jMinusOne)]

\* updateBlock(): labels, level-L statistics and dirty flags after the move
\* of block (iFrom, jFrom) to the label of (iTo, jTo).
updateBlock(mem, iFrom, jFrom, iTo, jTo, iSuperpixelFrom, jSuperpixelFrom, iSuperpixelTo, jSuperpixelTo, iPlusOne, iMinusOne, jPlusOne, jMinusOne) ==
    LET blockPixels == pixels[currentLevel][iFrom][jFrom]
        blockHistogram == histograms[currentLevel][iFrom][jFrom]
        pixelsFrom == [pixels EXCEPT
                         ![numberOfLevels][iSuperpixelFrom][jSuperpixelFrom] = @ - blockPixels]
        histogramsFrom == [histograms EXCEPT
                         ![numberOfLevels][iSuperpixelFrom][jSuperpixelFrom] =
                             [k \in DOMAIN @ |-> @[k] - blockHistogram[k]]]
    IN [currentLabels |-> [currentLabels EXCEPT ![iFrom][jFrom] = currentLabels[iTo][jTo]],
        pixels |-> [pixelsFrom EXCEPT
                         ![numberOfLevels][iSuperpixelTo][jSuperpixelTo] = @ + blockPixels],
        histograms |-> [histogramsFrom EXCEPT
                         ![numberOfLevels][iSuperpixelTo][jSuperpixelTo] =
                             [k \in DOMAIN @ |-> @[k] + blockHistogram[k]]],
        spatialMemory |-> markDirty(mem, iFrom, jFrom, iPlusOne, iMinusOne, jPlusOne, jMinusOne)]

\* A variant of updatePixel() that moves the pixel count but leaves the
\* histograms alone; C1 does not hold of it.
updatePixel_HistogramNotMoved(mem, iFrom, jFrom, iTo, jTo, iSuperpixelFrom, jSuperpixelFrom, iSuperpixelTo, jSuperpixelTo, iPlusOne, iMinusOne, jPlusOne, jMinusOne) ==
    LET pixelsFrom == [pixels EXCEPT
                         ![numberOfLevels][iSuperpixelFrom][jSuperpixelFrom] = @ - 1]
    IN [currentLabels |-> [currentLabels EXCEPT ![iFrom][jFrom] = currentLabels[iTo][jTo]],
        pixels |-> [pixelsFrom EXCEPT
                         ![numberOfLevels][iSuperpixelTo][jSuperpixelTo] = @ + 1],
        histograms |-> histograms,
        spatialMemory |-> markDirty(mem, iFrom, jFrom, iPlusOne, iMinusOne, jPlusOne, jMinusOne)]

\* updatePixel(): the same for the move of one pixel.
updatePixel(mem, iFrom, jFrom, iTo, jTo, iSuperpixelFrom, jSuperpixelFrom, iSuperpixelTo, jSuperpixelTo, iPlusOne, iMinusOne, jPlusOne, jMinusOne) ==
    LET bin == histogramBins[iFrom][jFrom]
        pixelsFrom == [pixels EXCEPT
                         ![numberOfLevels][iSuperpixelFrom][jSuperpixelFrom] = @ - 1]
        histogramsFrom == [histograms EXCEPT
                         ![numberOfLevels][iSuperpixelFrom][jSuperpixelFrom][bin] = @ - 1]
    IN [currentLabels |-> [currentLabels EXCEPT ![iFrom][jFrom] = currentLabels[iTo][jTo]],
        pixels |-> [pixelsFrom EXCEPT
                         ![numberOfLevels][iSuperpixelTo][jSuperpixelTo] = @ + 1],
        histograms |-> [histogramsFrom EXCEPT
                         ![numberOfLevels][iSuperpixelTo][jSuperpixelTo][bin] = @ + 1],
        spatialMemory |-> markDirty(mem, iFrom, jFrom, iPlusOne, iMinusOne, jPlusOne, jMinusOne)]

unchangedByUpdate(mem) ==
    [currentLabels |-> currentLabels, pixels |-> pixels,
     histograms |-> histograms, spatialMemory |-> mem]

\* performBlockUpdate(i, j): the state it leaves and the move it applied.
performBlockUpdate(i, j) ==
    IF spatialMemory[i][j]
    THEN LET mem == [spatialMemory EXCEPT ![i][j] = FALSE]
             d == blockDecision(i, j)
         IN IF FGreater(d.bestScore, FZero)
            THEN [state |-> updateBlock(mem, i, j, d.iBest, d.jBest,
                        getSuperpixelIFromLabel(currentLabels[i][j]),
                        getSuperpixelJFromLabel(currentLabels[i][j]),
                        d.iSuperpixelBest, d.jSuperpixelBest,
                        Min(i + 1, currentBlockHeightNumber - 1), Max(i - 1, 0),
                        Min(j + 1, currentBlockWidthNumber - 1), Max(j - 1, 0)),
                  move |-> [kind |-> "block", level |-> currentLevel, i |-> i, j |-> j,
                            from |-> currentLabels[i][j],
                            to |-> currentLabels[d.iBest][d.jBest], dir |-> d.dir]]
            ELSE [state |-> unchangedByUpdate(mem), move |-> NoMove]
    ELSE [state |-> unchangedByUpdate(spatialMemory), move |-> NoMove]

\* performPixelUpdate(i, j): the state it leaves and the move it applied.
performPixelUpdate(i, j) ==
    IF spatialMemory[i][j]
    THEN LET mem == [spatialMemory EXCEPT ![i][j] = FALSE]
             d == pixelDecision(i, j)
         IN IF FGreater(d.bestScore, FZero)
            THEN [state |-> updatePixel(mem, i, j, d.iBest, d.jBest,
                        getSuperpixelIFromLabel(currentLabels[i][j]),
                        getSuperpixelJFromLabel(currentLabels[i][j]),
                        d.iSuperpixelBest, d.jSuperpixelBest,
                        Min(i + 1, height - 1), Max(i - 1, 0),
                        Min(j + 1, width - 1), Max(j - 1, 0)),
                  move |-> [kind |-> "pixel", level |-> currentLevel, i |-> i, j |-> j,
                            from |-> currentLabels[i][j],
                            to |-> currentLabels[d.iBest][d.jBest], dir |-> d.dir]]
            ELSE [state |-> unchangedByUpdate(mem), move |-> NoMove]
    ELSE [state |-> unchangedByUpdate(spatialMemory), move |-> NoMove]

\* reinitializeSpatialMemory(): every flag of a bhn x bwn grid set.
reinitializeSpatialMemory(mem, bhn, bwn) ==
    SetCells(mem, (0..(bhn - 1)) \X (0..(bwn - 1)), TRUE)

---------------------------------------------------------------------------
(* Inputs.                                                                 *)

\* The two sample values images are drawn from (black and white).
ImageValues == {0, 255}

\* An image that is vIn inside the rectangle [ya, yb) x [xa, xb), vOut outside.
RectImage(W, H, ya, yb, xa, xb, vIn, vOut) ==
    [i \in 0..(H - 1) |-> [j \in 0..(W - 1) |->
        IF ya <= i /\ i < yb /\ xa <= j /\ j < xb THEN vIn ELSE vOut]]

\* The rectangles that touch the top or the bottom edge of the image, in
\* both colourings.
RectImages(W, H) ==
    {RectImage(W, H, r[1], r[2], r[3], r[4], v[1], v[2]) :
        r \in {q \in (0..H) \X (0..H) \X (0..W) \X (0..W) :
                  q[1] < q[2] /\ q[3] < q[4] /\ (q[1] = 0 \/ q[2] = H)},
        v \in {q \in ImageValues \X ImageValues : q[1] # q[2]}}

UniformImage(W, H) == [i \in 0..(H - 1) |-> [j \in 0..(W - 1) |-> 0]]

\* The engines the sweeps are explored for: <<W, H, numberOfLevels,
\* minimumBlockWidth, minimumBlockHeight>>, each with at least one superpixel.
EngineGeometries ==
    {<<3, 9, 2, 1, 2>>, <<5, 4, 2, 1, 1>>, <<4, 9, 3, 1, 1>>}

\* The default spatialWeight of the mean-pixels constructors, 0.25.
DefaultSpatialWeight == <<1, 4>>

ExplicitCall(kind, nLevels, mbw, mbh, nBins, nSize, mConf) ==
    [kind |-> kind, mode |-> "explicit", numberOfLevels |-> nLevels,
     minimumBlockWidth |-> mbw, minimumBlockHeight |-> mbh, numberOfBins |-> nBins,
     neighborhoodSize |-> nSize, minimumConfidence |-> mConf,
     desiredNumberOfSuperpixels |-> 0, channels |-> 1,
     spatialWeight |-> DefaultSpatialWeight]

AutoCall(kind, desired, nBins, nSize, mConf) ==
    [kind |-> kind, mode |-> "auto", numberOfLevels |-> 0,
     minimumBlockWidth |-> 0, minimumBlockHeight |-> 0, numberOfBins |-> nBins,
     neighborhoodSize |-> nSize, minimumConfidence |-> mConf,
     desiredNumberOfSuperpixels |-> desired, channels |-> 1,
     spatialWeight |-> DefaultSpatialWeight]

\* The default minimumConfidence, 0.1.
DefaultConfidence == <<1, 10>>

\* Arguments the explicit constructors are explored with.
LevelArguments == 2..3
BlockArguments == 1..2
BinArguments == {2, 5}
Kinds == {"SEEDSRevised", "SEEDSRevisedMeanPixels"}

\* The remaining arguments of a call, <<channels of the image,
\* neighborhoodSize, minimumConfidence>>: the defaults, a two-channel image,
\* a negative neighbourhood size and a negative confidence.
ArgumentProfiles ==
    {<<1, 1, DefaultConfidence>>, <<2, 1, DefaultConfidence>>,
     <<1, -1, DefaultConfidence>>, <<1, 1, <<-1, 10>>>>}

\* A call with the profile's arguments.
WithProfile(c, p) ==
    [c EXCEPT !.channels = p[1], !.neighborhoodSize = p[2], !.minimumConfidence = p[3]]

---------------------------------------------------------------------------
(* The state machine.                                                      *)

\* No earlier run.
NoRun == [done |-> FALSE, iterations |-> 0, log |-> <<>>, currentLabels |-> <<>>]

\* Before the constructor runs: the image and the call are fixed, no field set.
Unbuilt(c, img, W, H) ==
    /\ pc = "new"
    /\ ctor = c
    /\ image = img
    /\ width = W
    /\ height = H
    /\ numberOfLevels = 0
    /\ minimumBlockWidth = 0
    /\ minimumBlockHeight = 0
    /\ numberOfBins = 0
    /\ neighborhoodSize = 0
    /\ minimumConfidence = FZero
    /\ minimumNumberOfSublabels = 0
    /\ histogramBins = <<>>
    /\ currentLabels = <<>>
    /\ spatialMemory = <<>>
    /\ currentLevel = 0
    /\ currentBlockWidthNumber = 0
    /\ currentBlockHeightNumber = 0
    /\ superpixelWidthNumber = 0
    /\ superpixelHeightNumber = 0
    /\ pixels = <<>>
    /\ histograms = <<>>
    /\ histogramSize = 0
    /\ iterations = 0
    /\ iteration = 0
    /\ iPos = 0
    /\ jPos = 0
    /\ lastMove = NoMove
    /\ examined = [k \in 0..0 |-> 0]
    /\ log = <<>>
    /\ first = NoRun
    /\ calls = 0
    /\ spatialWeight = FZero
    /\ means = <<>>
    /\ initializedMeans = FALSE
    /\ meansInitializations = 0

\* The engines of the sweeps: explicit geometry, histogram mode.
Init ==
    \E g \in EngineGeometries, nSize \in 0..1 :
        \E img \in RectImages(g[1], g[2]) :
            Unbuilt(ExplicitCall("SEEDSRevised", g[3], g[4], g[5], NumBins, nSize,
                                 DefaultConfidence),
                    img, g[1], g[2])

\* Sizes <<W, H>> of elongated images the auto-sizing is also explored for.
ElongatedSizes == {<<4, 12>>, <<12, 5>>}

\* Every constructor, on images of every size up to MaxDim x MaxDim, and the
\* auto-sizing constructor on the elongated images.
InitConstructors ==
    \E W \in 1..MaxDim, H \in 1..MaxDim, kind \in Kinds, p \in ArgumentProfiles :
        \/ \E nLevels \in LevelArguments, mbw \in BlockArguments,
              mbh \in BlockArguments, nBins \in BinArguments :
                Unbuilt(WithProfile(ExplicitCall(kind, nLevels, mbw, mbh, nBins, 1,
                                                 DefaultConfidence), p),
                        UniformImage(W, H), W, H)
        \/ \E desired \in 0..MaxDesired :
                Unbuilt(WithProfile(AutoCall(kind, desired, NumBins, 1,
                                             DefaultConfidence), p),
                        UniformImage(W, H), W, H)
        \/ \E g \in ElongatedSizes, desired \in 0..MaxDesired :
                Unbuilt(WithProfile(AutoCall(kind, desired, NumBins, 1,
                                             DefaultConfidence), p),
                        UniformImage(g[1], g[2]), g[1], g[2])

\* The constructor: construct() sets the configuration and the image size,
\* unless one of the assertions of the constructor or of construct() fails.
Construct ==
    /\ pc = "new"
    /\ IF constructorAsserts(ctor, width, height)
       THEN /\ \E c \in {Constructed(ctor, width, height)} :
                  /\ numberOfLevels' = c.numberOfLevels
                  /\ minimumBlockWidth' = c.minimumBlockWidth
                  /\ minimumBlockHeight' = c.minimumBlockHeight
                  /\ numberOfBins' = c.numberOfBins
                  /\ minimumConfidence' = c.minimumConfidence
                  /\ neighborhoodSize' = c.neighborhoodSize
            /\ minimumNumberOfSublabels' = 1
            /\ spatialWeight' = IF ctor.kind = "SEEDSRevisedMeanPixels"
                                THEN ctor.spatialWeight ELSE spatialWeight
            /\ pc' = "constructed"
       ELSE /\ pc' = "aborted"
            /\ UNCHANGED <<numberOfLevels, minimumBlockWidth, minimumBlockHeight,
                           numberOfBins, minimumConfidence, neighborhoodSize,
                           minimumNumberOfSublabels, spatialWeight>>
    /\ initializedMeans' = FALSE
    /\ UNCHANGED <<ctor, image, width, height, labelVars, statVars, loopVars, ghostVars,
                   means, meansInitializations>>

\* initialize(): initializeLabels() then initializeHistograms().
Initialize ==
    /\ pc = "constructed"
    /\ \E lab \in {initializeLabels}, stat \in {initializeHistograms} :
          /\ currentLevel' = lab.currentLevel
          /\ currentLabels' = lab.currentLabels
          /\ currentBlockWidthNumber' = lab.currentBlockWidthNumber
          /\ currentBlockHeightNumber' = lab.currentBlockHeightNumber
          /\ histogramSize' = stat.histogramSize
          /\ histogramBins' = stat.histogramBins
          /\ pixels' = stat.pixels
          /\ histograms' = stat.histograms
    /\ superpixelWidthNumber' = getBlockWidthNumber(numberOfLevels)
    /\ superpixelHeightNumber' = getBlockHeightNumber(numberOfLevels)
    /\ spatialMemory' = [i \in 0..(height - 1) |-> [j \in 0..(width - 1) |-> TRUE]]
    /\ pc' = "initialized"
    /\ UNCHANGED <<configVars, loopVars, ghostVars, meanVars>>

\* Variant of pixelSweeps with as many pixel sweeps as block sweeps.
pixelSweeps_Single(n) == n

\* The sweeps of the pixel level in iterate(n).
pixelSweeps(n) == 2 * n

\* Where iterate() stands once it has entered a level with a bhn x bwn grid.
positionAt(level, bhn, bwn, n) ==
    IF level > 0
    THEN IF n > 0 /\ bhn > 0 /\ bwn > 0 THEN "block" ELSE "descend"
    ELSE IF pixelSweeps(n) > 0 /\ height > 0 /\ width > 0 THEN "pixel" ELSE "done"

\* The count of examined cells with one more at a level.
bump(ex, level) ==
    IF level \in DOMAIN ex THEN [ex EXCEPT ![level] = @ + 1] ELSE ex

\* The log with the move an examination applied, if it applied one.
logged(l, move) == IF move.kind = "none" THEN l ELSE Append(l, move)

\* The while loop of iterate() is over: SEEDSRevisedMeanPixels::iterate
\* calls initializeMeans(), SEEDSRevised::iterate goes on to the pixel sweeps.
afterBlockLevels(lab) ==
    IF ctor.kind = "SEEDSRevisedMeanPixels"
    THEN /\ means' = initializeMeans(lab)
         /\ initializedMeans' = TRUE
         /\ meansInitializations' = meansInitializations + 1
    ELSE UNCHANGED <<means, initializedMeans, meansInitializations>>

\* iterate(n) begins: the first level's flags are set and its sweeps begin.
startIterate(n) ==
    /\ iterations' = n
    /\ iteration' = 0
    /\ iPos' = 0
    /\ jPos' = 0
    /\ spatialMemory' = reinitializeSpatialMemory(spatialMemory,
                            currentBlockHeightNumber, currentBlockWidthNumber)
    /\ pc' = positionAt(currentLevel, currentBlockHeightNumber,
                        currentBlockWidthNumber, n)
    /\ lastMove' = NoMove
    /\ examined' = [k \in 0..numberOfLevels |-> 0]
    /\ calls' = calls + 1
    /\ IF currentLevel > 0 THEN UNCHANGED <<means, initializedMeans, meansInitializations>>
       ELSE afterBlockLevels(currentLabels)
    /\ UNCHANGED <<configVars, statVars, currentLabels, currentLevel,
                   currentBlockWidthNumber, currentBlockHeightNumber,
                   superpixelWidthNumber, superpixelHeightNumber, log, first, spatialWeight>>

\* iterate(n) is called on the engine initialize() has left.
Iterate(n) ==
    /\ pc = "initialized"
    /\ startIterate(n)

\* The loop variables after the examination of cell (iPos, jPos) of a
\* rows x cols grid, in a schedule of sweeps sweeps.
advance(rows, cols, sweeps, after) ==
    IF jPos + 1 < cols
    THEN /\ jPos' = jPos + 1
         /\ UNCHANGED <<pc, iPos, iteration>>
    ELSE IF iPos + 1 < rows
    THEN /\ jPos' = 0
         /\ iPos' = iPos + 1
         /\ UNCHANGED <<pc, iteration>>
    ELSE IF iteration + 1 < sweeps
    THEN /\ jPos' = 0
         /\ iPos' = 0
         /\ iteration' = iteration + 1
         /\ UNCHANGED pc
    ELSE /\ jPos' = 0
         /\ iPos' = 0
         /\ iteration' = 0
         /\ pc' = after

\* One step of a block sweep: performBlockUpdate(iPos, jPos).
BlockUpdate ==
    /\ pc = "block"
    /\ \E r \in {performBlockUpdate(iPos, jPos)} :
          /\ currentLabels' = r.state.currentLabels
          /\ pixels' = r.state.pixels
          /\ histograms' = r.state.histograms
          /\ spatialMemory' = r.state.spatialMemory
          /\ lastMove' = r.move
          /\ log' = logged(log, r.move)
    /\ examined' = bump(examined, currentLevel)
    /\ advance(currentBlockHeightNumber, currentBlockWidthNumber, iterations, "descend")
    /\ UNCHANGED <<configVars, histogramBins, histogramSize, iterations, currentLevel,
                   currentBlockWidthNumber, currentBlockHeightNumber,
                   superpixelWidthNumber, superpixelHeightNumber, first, calls, meanVars>>

\* The sweeps of a level are over: goDownOneLevel(), then the flags of the
\* next level (or of the pixel grid) are set.
GoDown ==
    /\ pc = "descend"
    /\ LET r == goDownOneLevel(currentLabels, currentLevel,
                               currentBlockHeightNumber, currentBlockWidthNumber)
       IN /\ currentLevel' = r.currentLevel
          /\ currentLabels' = r.currentLabels
          /\ currentBlockWidthNumber' = r.currentBlockWidthNumber
          /\ currentBlockHeightNumber' = r.currentBlockHeightNumber
          /\ spatialMemory' = reinitializeSpatialMemory(spatialMemory,
                                  r.currentBlockHeightNumber, r.currentBlockWidthNumber)
          /\ pc' = positionAt(r.currentLevel, r.currentBlockHeightNumber,
                              r.currentBlockWidthNumber, iterations)
          /\ IF r.currentLevel > 0
             THEN UNCHANGED <<means, initializedMeans, meansInitializations>>
             ELSE afterBlockLevels(r.currentLabels)
    /\ lastMove' = NoMove
    /\ UNCHANGED <<configVars, statVars, loopVars, superpixelWidthNumber,
                   superpixelHeightNumber, examined, log, first, calls, spatialWeight>>

\* One step of a pixel sweep: performPixelUpdate(iPos, jPos).
PixelUpdate ==
    /\ pc = "pixel"
    /\ \E r \in {performPixelUpdate(iPos, jPos)} :
          /\ currentLabels' = r.state.currentLabels
          /\ pixels' = r.state.pixels
          /\ histograms' = r.state.histograms
          /\ spatialMemory' = r.state.spatialMemory
          /\ means' = IF ctor.kind = "SEEDSRevisedMeanPixels" /\ r.move.kind = "pixel"
                       THEN meansAfterUpdatePixel(iPos, jPos,
                                getSuperpixelIFromLabel(r.move.from),
                                getSuperpixelJFromLabel(r.move.from),
                                getSuperpixelIFromLabel(r.move.to),
                                getSuperpixelJFromLabel(r.move.to))
                       ELSE means
          /\ lastMove' = r.move
          /\ log' = logged(log, r.move)
    /\ examined' = bump(examined, currentLevel)
    /\ advance(height, width, pixelSweeps(iterations), "done")
    /\ UNCHANGED <<configVars, histogramBins, histogramSize, iterations, currentLevel,
                   currentBlockWidthNumber, currentBlockHeightNumber,
                   superpixelWidthNumber, superpixelHeightNumber, first, calls,
                   spatialWeight, initializedMeans, meansInitializations>>

IterateAny == \E n \in 0..MaxIterations : Iterate(n)

Next == Construct \/ Initialize \/ IterateAny \/ BlockUpdate \/ GoDown \/ PixelUpdate

Spec == Init /\ [][Next]_vars

NextConstructors == Construct \/ Initialize

SpecConstructors == InitConstructors /\ [][NextConstructors]_vars

\* The run on the image of two halves: 8 x 8 pixels, columns 0..3 of value 0
\* and columns 4..7 of value 255, 5 bins, 2 levels, minimum block 2 x 2,
\* neighborhoodSize 0, iterate(2).
Halves ==
    [width |-> 8, height |-> 8, split |-> 4, numberOfLevels |-> 2,
     minimumBlockWidth |-> 2, minimumBlockHeight |-> 2, numberOfBins |-> 5,
     neighborhoodSize |-> 0, iterations |-> 2]

InitHalves ==
    Unbuilt(ExplicitCall("SEEDSRevised", Halves.numberOfLevels, Halves.minimumBlockWidth,
                         Halves.minimumBlockHeight, Halves.numberOfBins,
                         Halves.neighborhoodSize, DefaultConfidence),
            RectImage(Halves.width, Halves.height, 0, Halves.height, Halves.split,
                      Halves.width, 255, 0),
            Halves.width, Halves.height)

IterateHalves == Iterate(Halves.iterations)

NextHalves ==
    Construct \/ Initialize \/ IterateHalves \/ BlockUpdate \/ GoDown \/ PixelUpdate

SpecHalves == InitHalves /\ [][NextHalves]_vars

---------------------------------------------------------------------------
(* Two runs of the program on the same image with the same configuration:  *)
(* the first run ends, its accepted moves and its labels are kept, and a   *)
(* new engine is constructed, initialized and iterated as often.           *)

TwoRunGeometries == {<<5, 4, 2, 1, 1>>, <<4, 9, 3, 1, 1>>}

InitTwoRuns ==
    \E g \in TwoRunGeometries :
        \E img \in RectImages(g[1], g[2]) :
            Unbuilt(ExplicitCall("SEEDSRevised", g[3], g[4], g[5], NumBins, 1,
                                 DefaultConfidence),
                    img, g[1], g[2])

\* The first run calls iterate(n) for any n.
IterateFirst == ~first.done /\ IterateAny

\* The second run calls iterate() with the argument of the first.
IterateSecond == first.done /\ Iterate(first.iterations)

\* The program is run again: the engine of the first run is gone and a new
\* one is about to be constructed from the same arguments.
Rerun ==
    /\ pc = "done"
    /\ ~first.done
    /\ first' = [done |-> TRUE, iterations |-> iterations, log |-> log,
                 currentLabels |-> currentLabels]
    /\ pc' = "new"
    /\ numberOfLevels' = 0
    /\ minimumBlockWidth' = 0
    /\ minimumBlockHeight' = 0
    /\ numberOfBins' = 0
    /\ neighborhoodSize' = 0
    /\ minimumConfidence' = FZero
    /\ minimumNumberOfSublabels' = 0
    /\ histogramBins' = <<>>
    /\ currentLabels' = <<>>
    /\ spatialMemory' = <<>>
    /\ currentLevel' = 0
    /\ currentBlockWidthNumber' = 0
    /\ currentBlockHeightNumber' = 0
    /\ superpixelWidthNumber' = 0
    /\ superpixelHeightNumber' = 0
    /\ pixels' = <<>>
    /\ histograms' = <<>>
    /\ histogramSize' = 0
    /\ iterations' = 0
    /\ iteration' = 0
    /\ iPos' = 0
    /\ jPos' = 0
    /\ lastMove' = NoMove
    /\ examined' = [k \in 0..0 |-> 0]
    /\ log' = <<>>
    /\ calls' = 0
    /\ spatialWeight' = FZero
    /\ means' = <<>>
    /\ initializedMeans' = FALSE
    /\ meansInitializations' = 0
    /\ UNCHANGED <<ctor, image, width, height>>

NextTwoRuns ==
    \/ Construct \/ Initialize \/ IterateFirst \/ IterateSecond
    \/ BlockUpdate \/ GoDown \/ PixelUpdate \/ Rerun

SpecTwoRuns == InitTwoRuns /\ [][NextTwoRuns]_vars

---------------------------------------------------------------------------
(* A client of the public interface: after initialize() it calls           *)
(* iterate() and goDownOneLevel() in any order, MaxCalls times at most.    *)

MaxCalls == 3

ClientGeometries == {<<5, 4, 2, 1, 1>>, <<4, 9, 3, 1, 1>>}

\* Images split by a vertical line.
ClientImages(W, H) == {RectImage(W, H, 0, H, 0, c, 255, 0) : c \in 1..(W - 1)}

InitClient ==
    \E g \in ClientGeometries :
        \E img \in ClientImages(g[1], g[2]) :
            Unbuilt(ExplicitCall("SEEDSRevised", g[3], g[4], g[5], NumBins, 1,
                                 DefaultConfidence),
                    img, g[1], g[2])

\* The client calls iterate(n) on an engine that is not inside a call.
CallIterate ==
    /\ pc \in {"initialized", "done"}
    /\ calls < MaxCalls
    /\ \E n \in 0..MaxIterations : startIterate(n)

\* The client calls goDownOneLevel() on an engine that is not inside a call.
CallGoDownOneLevel ==
    /\ pc \in {"initialized", "done"}
    /\ calls < MaxCalls
    /\ LET r == goDownOneLevel(currentLabels, currentLevel,
                               currentBlockHeightNumber, currentBlockWidthNumber)
       IN /\ currentLevel' = r.currentLevel
          /\ currentLabels' = r.currentLabels
          /\ currentBlockWidthNumber' = r.currentBlockWidthNumber
          /\ currentBlockHeightNumber' = r.currentBlockHeightNumber
    /\ calls' = calls + 1
    /\ UNCHANGED <<pc, configVars, statVars, loopVars, spatialMemory,
                   superpixelWidthNumber, superpixelHeightNumber,
                   lastMove, examined, log, first, meanVars>>

NextClient ==
    \/ Construct \/ Initialize \/ CallIterate \/ CallGoDownOneLevel
    \/ BlockUpdate \/ GoDown \/ PixelUpdate

SpecClient == InitClient /\ [][NextClient]_vars

---------------------------------------------------------------------------
(* Vocabulary of the properties.                                           *)

\* initialize() has run.
\* The constructor has returned an engine.
Built == pc \notin {"new", "aborted"}

Initialized == pc \in {"initialized", "block", "descend", "pixel", "done"}

\* The cells of the current grid (blocks of the current level, or pixels).
CurrentCells == (0..(currentBlockHeightNumber - 1)) \X (0..(currentBlockWidthNumber - 1))

\* The labels of the superpixels.
Labels == 0..(superpixelHeightNumber * superpixelWidthNumber - 1)

\* The cells of the current grid that carry label s.
CellsOf(lab, s) == {p \in CurrentCells : lab[p[1]][p[2]] = s}

\* Pixel count and histogram of one cell of the current grid.
CellPixels(p) == IF currentLevel > 0 THEN pixels[currentLevel][p[1]][p[2]] ELSE 1
CellHistogram(p, k) ==
    IF currentLevel > 0 THEN histograms[currentLevel][p[1]][p[2]][k]
    ELSE IF histogramBins[p[1]][p[2]] = k THEN 1 ELSE 0

BinSum(h) == SumOver(DOMAIN h, h)

SuperpixelPixels(s) ==
    pixels[numberOfLevels][getSuperpixelIFromLabel(s)][getSuperpixelJFromLabel(s)]
SuperpixelHistogram(s) ==
    histograms[numberOfLevels][getSuperpixelIFromLabel(s)][getSuperpixelJFromLabel(s)]

\* 4-connectivity of a set of cells.
Adjacent(p, q) == Abs(p[1] - q[1]) + Abs(p[2] - q[2]) = 1
RECURSIVE Reach(_, _)
Reach(S, R) ==
    LET R2 == R \cup {p \in S : \E q \in R : Adjacent(p, q)}
    IN IF R2 = R THEN R ELSE Reach(S, R2)
Connected(S) == S = {} \/ Reach(S, {CHOOSE p \in S : TRUE}) = S

---------------------------------------------------------------------------
(* Properties.                                                             *)

\* C1: in every state after initialize(), for every level 1..L and every
\* block of that level, the bins of the block's histogram sum to its stored
\* pixel count (the level-L buckets the moves modify included).
C1_HistogramSumIsPixelCount ==
    Initialized =>
        \A level \in 1..numberOfLevels :
            \A i \in DOMAIN pixels[level] : \A j \in DOMAIN pixels[level][i] :
                BinSum(histograms[level][i][j]) = pixels[level][i][j]

\* Witness of C1: a pixel move has just been applied after block moves changed
\* the level-L buckets.
C1_Witness ==
    /\ lastMove.kind = "pixel"
    /\ \E s \in Labels : SuperpixelPixels(s) # (width * height) \div Cardinality(Labels)

\* C2: in every state after initialize(), the level-L pixel count and
\* histogram of every label equal the sums of the pixel counts and histograms
\* of the cells of the current grid that carry the label.
C2_SuperpixelStatisticsAreSumOfCells ==
    Initialized =>
        \A s \in Labels :
            /\ SuperpixelPixels(s) =
                   SumOver(CellsOf(currentLabels, s), [p \in CurrentCells |-> CellPixels(p)])
            /\ \A k \in 0..(histogramSize - 1) :
                   SuperpixelHistogram(s)[k] =
                       SumOver(CellsOf(currentLabels, s),
                               [p \in CurrentCells |-> CellHistogram(p, k)])

\* Witness of C2: a block move has been applied at a level below L - 1, i.e.
\* after a descent between two block levels.
C2_Witness ==
    lastMove.kind = "block" /\ currentLevel < numberOfLevels - 1

countSuperpixels == Cardinality({currentLabels[p[1]][p[2]] : p \in CurrentCells})

C6_MovePreservesConnectivity ==
    [][(lastMove'.kind # "none" /\ Connected(CellsOf(currentLabels, lastMove'.from)))
          => Connected(CellsOf(currentLabels', lastMove'.from))]_vars

\* The 3 x 3 window of cell (i, j), the cell excepted: its cells inside the
\* current grid that carry the label of (i, j).
WindowOf(lab, i, j) ==
    {p \in CurrentCells : /\ Abs(p[1] - i) <= 1 /\ Abs(p[2] - j) <= 1
                          /\ p # <<i, j>>
                          /\ lab[p[1]][p[2]] = lab[i][j]}

\* Taking (i, j) out of its label leaves two same-labelled 4-neighbours that no
\* path of same-labelled cells inside the window joins.
LocalSplit(lab, i, j) ==
    LET win == WindowOf(lab, i, j)
        near == {p \in win : Adjacent(p, <<i, j>>)}
    IN \E p \in near : \E q \in near : q \notin Reach(win, {p})

\* The guard as performBlockUpdate and performPixelUpdate consult it for the
\* cell (i, j) of the current grid.
GuardAt(dir, i, j) ==
    checkSplit(dir, currentLabels, i, j,
               Min(i + 1, currentBlockHeightNumber - 1), Max(i - 1, 0),
               Min(j + 1, currentBlockWidthNumber - 1), Max(j - 1, 0))

\* The neighbour of (i, j) in a direction, which may lie outside the grid.
TowardsOf(dir, i, j) == neighbourOf(dir, i, j, i + 1, i - 1, j + 1, j - 1)

\* C7: at every level, for every cell of the current grid and every
\* direction in which its neighbour carries a different label, the guard
\* forbids the move exactly when it is a locally detectable split; cells on
\* the last row or column of a block grid are no exception.
C7_GuardIsExact ==
    pc \in {"block", "pixel"} =>
        \A p \in CurrentCells : \A d \in 1..4 :
            LET to == TowardsOf(Directions[d], p[1], p[2])
            IN (to \in CurrentCells
                    /\ currentLabels[to[1]][to[2]] # currentLabels[p[1]][p[2]])
                => (GuardAt(Directions[d], p[1], p[2])
                        <=> LocalSplit(currentLabels, p[1], p[2]))

\* floor(W / (w * 2^(L-1))) * floor(H / (h * 2^(L-1)))
SuperpixelFormula(W, H, w, h, L) ==
    (W \div (w * Pow(2, L - 1))) * (H \div (h * Pow(2, L - 1)))

\* The number of cells of a grid stored as rows of columns.
CellCount(g) == SumOver(DOMAIN g, [i \in DOMAIN g |-> Cardinality(DOMAIN g[i])])

\* C8: getNumberOfSuperpixels() is floor(W/(w*2^(L-1))) * floor(H/(h*2^(L-1)))
\* for the (w, h, L) in effect, given explicitly or selected by the
\* auto-sizing, and the superpixel grid of the labels and of the statistics
\* has exactly that many cells.
C8_NumberOfSuperpixels ==
    /\ Built =>
          getNumberOfSuperpixels =
              SuperpixelFormula(width, height, minimumBlockWidth,
                                minimumBlockHeight, numberOfLevels)
    /\ pc = "initialized" =>
          /\ superpixelHeightNumber * superpixelWidthNumber = getNumberOfSuperpixels
          /\ CellCount(pixels[numberOfLevels]) = getNumberOfSuperpixels
          /\ CellCount(histograms[numberOfLevels]) = getNumberOfSuperpixels
          /\ {currentLabels[i][j] : i \in 0..(height - 1), j \in 0..(width - 1)} \ {-1}
                 = 0..(getNumberOfSuperpixels - 1)

\* Witness of C8: an auto-sized engine with several superpixels on an image
\* that the superpixel size does not divide has been initialized.
C8_Witness ==
    /\ pc = "initialized"
    /\ ctor.mode = "auto"
    /\ getNumberOfSuperpixels > 1
    /\ width % getBlockWidth(numberOfLevels) # 0

\* C9: SEEDSRevisedMeanPixels(image, L, w, h, b, ...) runs the engine with L
\* levels, minimum block w x h and b bins, so that getNumberOfSuperpixels()
\* is floor(W/(w*2^(L-1))) * floor(H/(h*2^(L-1))).
C9_MeanPixelsExplicitArguments ==
    (Built /\ ctor.kind = "SEEDSRevisedMeanPixels" /\ ctor.mode = "explicit") =>
        /\ numberOfLevels = ctor.numberOfLevels
        /\ minimumBlockWidth = ctor.minimumBlockWidth
        /\ minimumBlockHeight = ctor.minimumBlockHeight
        /\ numberOfBins = ctor.numberOfBins
        /\ getNumberOfSuperpixels =
               SuperpixelFormula(width, height, ctor.minimumBlockWidth,
                                 ctor.minimumBlockHeight, ctor.numberOfLevels)

\* The candidates of the auto-sizing, and the order in which the scan over
\* w, then h, then L meets them.
AutoChoices ==
    {c \in (2..4) \X (2..4) \X (2..12) : Abs(c[1] - c[2]) <= 1}
ScannedBefore(a, b) ==
    \/ a[1] < b[1]
    \/ a[1] = b[1] /\ a[2] < b[2]
    \/ a[1] = b[1] /\ a[2] = b[2] /\ a[3] < b[3]
ChoiceDifference(c) ==
    Abs(ctor.desiredNumberOfSuperpixels - SuperpixelFormula(width, height, c[1], c[2], c[3]))

\* C10: the auto-sizing constructor selects, among w, h in {2,3,4} with
\* |w - h| <= 1 and L in 2..12, a triple that minimises
\* |desired - superpixel count|; among equal differences it keeps the first
\* one the scan over w, then h, then L meets.
C10_AutoSizeMinimisesDifference ==
    (Built /\ ctor.mode = "auto") =>
        LET sel == <<minimumBlockWidth, minimumBlockHeight, numberOfLevels>>
        IN /\ sel \in AutoChoices
           /\ \A c \in AutoChoices :
                 /\ ChoiceDifference(sel) <= ChoiceDifference(c)
                 /\ ScannedBefore(c, sel) => ChoiceDifference(sel) < ChoiceDifference(c)

\* Witness of C10: the selected triple is not the first of the scan, and a
\* triple met later has the same difference.
C10_Witness ==
    /\ pc = "constructed"
    /\ ctor.mode = "auto"
    /\ LET sel == <<minimumBlockWidth, minimumBlockHeight, numberOfLevels>>
       IN /\ sel # <<2, 2, 2>>
          /\ \E c \in AutoChoices :
                ScannedBefore(sel, c) /\ ChoiceDifference(c) = ChoiceDifference(sel)

\* Every candidate geometry of the auto-sizing gives zero superpixels.
NoValidGeometry ==
    \A c \in AutoChoices : SuperpixelFormula(width, height, c[1], c[2], c[3]) = 0

\* C11: when no candidate (w, h, L) gives a superpixel, the auto-sizing
\* constructor fails; it never goes on to construct an engine.
C11_AutoSizeFailsWithoutGeometry ==
    (ctor.mode = "auto" /\ NoValidGeometry) => pc \in {"new", "aborted"}

\* A documented precondition of the call does not hold.
PreconditionViolated ==
    \/ ctor.mode = "explicit" /\ 2 * ctor.minimumBlockWidth > width
    \/ ctor.mode = "explicit" /\ 2 * ctor.minimumBlockHeight > height
    \/ ctor.neighborhoodSize < 0
    \/ FGreater(FZero, ctor.minimumConfidence)
    \/ ctor.channels \notin {1, 3}

\* C12: a constructor call that violates a documented precondition (block
\* size, neighbourhood size, confidence, channels) aborts before any label or
\* statistics state is built.
C12_PreconditionsAbortConstruction ==
    PreconditionViolated => pc \in {"new", "aborted"}

\* The label of pixel (y, x) that the subdivision alone gives.
SubdivisionLabel(y, x) ==
    Min(y \div getBlockHeight(numberOfLevels), getBlockHeightNumber(numberOfLevels) - 1)
            * getBlockWidthNumber(numberOfLevels)
        + Min(x \div getBlockWidth(numberOfLevels), getBlockWidthNumber(numberOfLevels) - 1)

LabelsOfColumns(xa, xb) ==
    {currentLabels[y][x] : y \in 0..(height - 1), x \in xa..(xb - 1)}

\* C14: on the image of two halves, after initialize() and iterate(2), no
\* label is carried both by a pixel of the left half and by a pixel of the
\* right half.
C14_NoLabelSpansBothHalves ==
    pc = "done" =>
        LabelsOfColumns(0, Halves.split) \cap LabelsOfColumns(Halves.split, width) = {}

\* Witness of C14: iterate(2) is over on the image of two halves.
C14_Witness ==
    /\ pc = "done"
    /\ iterations = Halves.iterations
    /\ examined[0] = pixelSweeps(Halves.iterations) * Halves.width * Halves.height
    /\ image[0][0] = 0 /\ image[0][Halves.width - 1] = 255

\* The first n entries of a log.
Prefix(l, n) == [k \in 1..n |-> l[k]]

LevelCells(k) == getBlockHeightNumber(k) * getBlockWidthNumber(k)

\* iterate() has been called on the engine.
Iterating == pc \in {"block", "descend", "pixel", "done"}

\* C16 (amended): after initialize(), which has already descended from
\* level L to level L-1, iterate(n) runs exactly n full row-major sweeps of
\* block updates at each level from L-1 down to 1, in that order with one
\* descent after each level, and none at level L; then it runs exactly 2n
\* full row-major sweeps of pixel updates at level 0.  At every point of the
\* run the number of examinations made at a level is: all n sweeps for a
\* level already left, the row-major position of the loop for the level
\* being swept, and none for the levels below and for level L.
C16_SweepsFromLevelBelowTop ==
    Iterating =>
        /\ examined[numberOfLevels] = 0
        /\ \A k \in 1..(numberOfLevels - 1) :
              examined[k] =
                  IF k > currentLevel \/ (k = currentLevel /\ pc = "descend")
                  THEN iterations * LevelCells(k)
                  ELSE IF k = currentLevel
                  THEN iteration * LevelCells(k) + iPos * currentBlockWidthNumber + jPos
                  ELSE 0
        /\ examined[0] =
               IF pc = "done" THEN 2 * iterations * height * width
               ELSE IF pc = "pixel" THEN iteration * height * width + iPos * width + jPos
               ELSE 0
        /\ pc = "block" => currentLevel \in 1..(numberOfLevels - 1)
        /\ pc = "descend" => currentLevel \in 1..(numberOfLevels - 1)
        /\ pc \in {"pixel", "done"} => currentLevel = 0

\* Witness of C16: iterate(n), n >= 1, has ended on an engine of three
\* levels, after sweeps at the levels 2 and 1 and at the pixel level.
C16_Witness ==
    /\ pc = "done"
    /\ iterations >= 1
    /\ numberOfLevels = 3
    /\ examined[2] > 0 /\ examined[1] > 0 /\ examined[0] > 0

\* C16 as stated: iterate(n) runs n full sweeps of block updates at each
\* level from L down to 1 and 2n sweeps of pixel updates.
C16_SweepsFromTopLevel ==
    pc = "done" =>
        /\ \A k \in 1..numberOfLevels : examined[k] = iterations * LevelCells(k)
        /\ examined[0] = 2 * iterations * height * width

\* C17: between two initialize() calls the level getLevel() reports stays
\* in 0..L, never increases and drops by exactly one per descent, and level
\* 0 is terminal: whatever the client calls, iterate() or goDownOneLevel(),
\* no step takes the level below 0, and once level 0 is reached no descent
\* changes the label grid.
C17_LevelDescendsToZeroAndStays ==
    [][(Initialized /\ Initialized') =>
          /\ currentLevel' \in 0..numberOfLevels
          /\ currentLevel' \in {currentLevel, currentLevel - 1}
          /\ currentLabels' # currentLabels /\ currentLevel = 0 => pc = "pixel"
          /\ currentLevel = 0 => currentLevel' = 0]_vars

\* The cell of the level above that cell (r, c) descends from, in a grid of
\* rows x cols parents.
ParentOf(r, c, rows, cols) == <<Min(r \div 2, rows - 1), Min(c \div 2, cols - 1)>>

\* C18: a descent from block level k to block level k-1 gives every cell
\* (r, c) of the new grid the label that cell (min(r div 2, rows_k - 1),
\* min(c div 2, cols_k - 1)) had just before the descent, in the descent
\* initialize() makes from the row-major labels of level L as in those
\* iterate() makes after the sweeps of a level.
C18_DescentCopiesParents ==
    [][/\ (pc = "descend" /\ currentLevel' = currentLevel - 1 /\ currentLevel' >= 1) =>
            \A r \in 0..(currentBlockHeightNumber' - 1),
               c \in 0..(currentBlockWidthNumber' - 1) :
                \A p \in {ParentOf(r, c, currentBlockHeightNumber,
                                   currentBlockWidthNumber)} :
                    currentLabels'[r][c] = currentLabels[p[1]][p[2]]
       /\ (pc = "constructed" /\ pc' = "initialized") =>
            \A r \in 0..(currentBlockHeightNumber' - 1),
               c \in 0..(currentBlockWidthNumber' - 1) :
                \A p \in {ParentOf(r, c, superpixelHeightNumber',
                                   superpixelWidthNumber')} :
                    currentLabels'[r][c] = p[1] * superpixelWidthNumber' + p[2]]_vars

\* Witness of C18: the descent from level 2 to level 1 has just been made,
\* after a block move at level 2, onto a grid with a remainder row.
C18_Witness ==
    /\ numberOfLevels = 3
    /\ currentLevel = 1
    /\ pc = "block" /\ iteration = 0 /\ iPos = 0 /\ jPos = 0
    /\ \E k \in 1..Len(log) : log[k].kind = "block" /\ log[k].level = 2
    /\ currentBlockHeightNumber > 2 * getBlockHeightNumber(2)

\* The block of level k that pixel (y, x) takes its label from under the
\* descent rules: the level-1 block stamped onto it, then parent by parent.
RECURSIVE AncestorAt(_, _, _)
AncestorAt(k, y, x) ==
    IF k <= 1
    THEN <<Min(y \div minimumBlockHeight, getBlockHeightNumber(1) - 1),
           Min(x \div minimumBlockWidth, getBlockWidthNumber(1) - 1)>>
    ELSE LET b == AncestorAt(k - 1, y, x)
         IN ParentOf(b[1], b[2], getBlockHeightNumber(k), getBlockWidthNumber(k))

InheritingPixels(k, i, j) ==
    {p \in (0..(height - 1)) \X (0..(width - 1)) : AncestorAt(k, p[1], p[2]) = <<i, j>>}

\* The rectangle of block (i, j) of level k, widened to the image border for
\* the last row and the last column of blocks.
WidenedRectangle(k, i, j) ==
    LET rowEnd == IF i = getBlockHeightNumber(k) - 1 THEN height
                  ELSE (i + 1) * getBlockHeight(k)
        colEnd == IF j = getBlockWidthNumber(k) - 1 THEN width
                  ELSE (j + 1) * getBlockWidth(k)
    IN ((i * getBlockHeight(k))..(rowEnd - 1)) \X ((j * getBlockWidth(k))..(colEnd - 1))

\* C19: after initializeHistograms(), for every level k in 1..L and every
\* block (i, j) of it, the stored pixel count and histogram are the counts
\* over exactly the pixels that inherit the block's label under the descent
\* rules, which are the pixels of the block's rectangle widened to the
\* image border for the last row and column: the sums over the children
\* and the remainder blocks lose no pixel and count none twice.
C19_StatisticsCountInheritingPixels ==
    pc = "initialized" =>
        \A k \in 1..numberOfLevels :
            \A i \in 0..(getBlockHeightNumber(k) - 1), j \in 0..(getBlockWidthNumber(k) - 1) :
                \A own \in {InheritingPixels(k, i, j)} :
                    /\ own = WidenedRectangle(k, i, j)
                    /\ pixels[k][i][j] = Cardinality(own)
                    /\ \A b \in 0..(histogramSize - 1) :
                          histograms[k][i][j][b] =
                              Cardinality({p \in own : histogramBins[p[1]][p[2]] = b})

\* Witness of C19: a three-level engine is initialized whose level-1 grid
\* has a remainder row for level 2, on an image with two bins in use.
C19_Witness ==
    /\ pc = "initialized"
    /\ numberOfLevels = 3
    /\ getBlockHeightNumber(1) > 2 * getBlockHeightNumber(2)
    /\ \E p, q \in (0..(height - 1)) \X (0..(width - 1)) :
          histogramBins[p[1]][p[2]] # histogramBins[q[1]][q[2]]

\* The order in which a block update is said to compare its candidates.
ComparisonOrder == <<"VF", "VB", "HF", "HB">>

\* The neighbour of the block about to be examined in the d-th direction,
\* its label, and the score of handing the block to that label's superpixel.
NeighbourIn(d) ==
    neighbourOf(ComparisonOrder[d], iPos, jPos,
                Min(iPos + 1, currentBlockHeightNumber - 1), Max(iPos - 1, 0),
                Min(jPos + 1, currentBlockWidthNumber - 1), Max(jPos - 1, 0))
NeighbourLabel(d) == currentLabels[NeighbourIn(d)[1]][NeighbourIn(d)[2]]
CandidateScore(d) ==
    scoreProposedBlockSegmentation(iPos, jPos,
                                   getSuperpixelIFromLabel(NeighbourLabel(d)),
                                   getSuperpixelJFromLabel(NeighbourLabel(d)))
StatusQuoScore ==
    scoreCurrentBlockSegmentation(iPos, jPos,
                                  getSuperpixelIFromLabel(currentLabels[iPos][jPos]),
                                  getSuperpixelJFromLabel(currentLabels[iPos][jPos]))

\* The block about to be examined has its flag set, a neighbour of another
\* label, and its superpixel has blocks to spare: its candidates are scored.
CandidatesScored ==
    /\ pc = "block"
    /\ spatialMemory[iPos][jPos]
    /\ \E d \in 1..4 : NeighbourLabel(d) # currentLabels[iPos][jPos]
    /\ blockCountAllows(iPos, jPos, getSuperpixelIFromLabel(currentLabels[iPos][jPos]),
                        getSuperpixelJFromLabel(currentLabels[iPos][jPos]))

\* The directions whose neighbour label differs, which pass the guard and
\* whose score exceeds the status-quo score by more than minimumConfidence.
Eligible ==
    {d \in 1..4 :
        /\ NeighbourLabel(d) # currentLabels[iPos][jPos]
        /\ ~GuardAt(ComparisonOrder[d], iPos, jPos)
        /\ FGreater(CandidateScore(d), FAdd(StatusQuoScore, minimumConfidence))}

\* The first, in the comparison order, of the eligible directions of
\* largest score.
Winners ==
    {d \in Eligible :
        /\ \A e \in Eligible : ~FGreater(CandidateScore(e), CandidateScore(d))
        /\ \A e \in Eligible : e < d => FGreater(CandidateScore(d), CandidateScore(e))}

\* C20: a block update that scores its candidates moves the block to the
\* candidate of largest score among the directions whose neighbour label
\* differs, which pass the topology guard and whose score exceeds the
\* status-quo score plus minimumConfidence; the candidates are compared in
\* the order VF, VB, HF, HB and a later one of equal score does not replace
\* an earlier one; when no candidate is eligible the block does not move.
C20_BlockMovesToFirstBestCandidate ==
    [][CandidatesScored =>
          IF Eligible = {}
          THEN /\ lastMove' = NoMove
               /\ currentLabels' = currentLabels
          ELSE \A d \in Winners :
                  /\ Cardinality(Winners) = 1
                  /\ lastMove'.kind = "block"
                  /\ lastMove'.dir = ComparisonOrder[d]
                  /\ lastMove'.i = iPos /\ lastMove'.j = jPos
                  /\ lastMove'.to = NeighbourLabel(d)
                  /\ currentLabels'[iPos][jPos] = NeighbourLabel(d)]_vars

\* Witness of C20: a block update has two eligible directions of equal,
\* largest score towards different superpixels.
C20_Witness ==
    /\ CandidatesScored
    /\ \E d \in Eligible : \E e \in Eligible :
          /\ d < e
          /\ NeighbourLabel(d) # NeighbourLabel(e)
          /\ CandidateScore(d) = CandidateScore(e)
          /\ \A f \in Eligible : ~FGreater(CandidateScore(f), CandidateScore(d))

\* The superpixel of the cell about to be examined.
SuperpixelAtPosition ==
    <<getSuperpixelIFromLabel(currentLabels[iPos][jPos]),
      getSuperpixelJFromLabel(currentLabels[iPos][jPos])>>

\* The block about to be examined has its flag set and a neighbour of
\* another label: its member-count rule is consulted.
CountRuleConsulted ==
    /\ pc = "block"
    /\ spatialMemory[iPos][jPos]
    /\ someNeighbourDiffers(iPos, jPos,
                            Min(iPos + 1, currentBlockHeightNumber - 1), Max(iPos - 1, 0),
                            Min(jPos + 1, currentBlockWidthNumber - 1), Max(jPos - 1, 0))

\* The blocks of the current level that carry the label of the block about
\* to be examined, that block excepted.
OtherBlocksOfSuperpixel ==
    CellsOf(currentLabels, currentLabels[iPos][jPos]) \ {<<iPos, jPos>>}

\* C21: the member-count rule of a block update rejects the move exactly
\* when the block is the last one of its superpixel: a block whose
\* superpixel has another block is never rejected by the rule, whatever
\* the pixel counts of the blocks.
C21_CountRuleRejectsOnlyLastBlock ==
    CountRuleConsulted =>
        (blockCountAllows(iPos, jPos, SuperpixelAtPosition[1], SuperpixelAtPosition[2])
            <=> OtherBlocksOfSuperpixel # {})

\* The block about to be examined and its four clamped neighbours.
BlockAndNeighbours ==
    {<<iPos, jPos>>,
     <<Min(iPos + 1, currentBlockHeightNumber - 1), jPos>>, <<Max(iPos - 1, 0), jPos>>,
     <<iPos, Min(jPos + 1, currentBlockWidthNumber - 1)>>, <<iPos, Max(jPos - 1, 0)>>}

\* The superpixel bucket of a label, as <<row, column>> of the level-L grid.
BucketOf(s) == <<getSuperpixelIFromLabel(s), getSuperpixelJFromLabel(s)>>

\* C22: an accepted block move changes exactly this: the label of the block
\* becomes the label of the chosen clamped neighbour; the block's pixel
\* count and every bin of its histogram are subtracted from the level-L
\* bucket of the source superpixel and added to that of the destination;
\* the flags of the block and of its four clamped neighbours are set.
\* Every other label, every other superpixel's statistics, the block
\* statistics of the levels below L and the bins of the pixels stay as they
\* were.  An examination that accepts no move changes no label and no
\* statistic.
C22_BlockMoveFrame ==
    [][pc = "block" =>
         IF lastMove'.kind = "block"
         THEN \A from \in {currentLabels[iPos][jPos]} : \A to \in {lastMove'.to} :
                /\ to # from
                /\ \E n \in BlockAndNeighbours : currentLabels[n[1]][n[2]] = to
                /\ currentLabels' = [currentLabels EXCEPT ![iPos][jPos] = to]
                /\ \A s \in Labels : \A b \in {BucketOf(s)} :
                      /\ pixels'[numberOfLevels][b[1]][b[2]] =
                            pixels[numberOfLevels][b[1]][b[2]]
                            + (IF s = to THEN pixels[currentLevel][iPos][jPos] ELSE 0)
                            - (IF s = from THEN pixels[currentLevel][iPos][jPos] ELSE 0)
                      /\ \A k \in 0..(histogramSize - 1) :
                            histograms'[numberOfLevels][b[1]][b[2]][k] =
                               histograms[numberOfLevels][b[1]][b[2]][k]
                               + (IF s = to THEN histograms[currentLevel][iPos][jPos][k] ELSE 0)
                               - (IF s = from THEN histograms[currentLevel][iPos][jPos][k] ELSE 0)
                /\ \A l \in 1..(numberOfLevels - 1) :
                      /\ pixels'[l] = pixels[l]
                      /\ histograms'[l] = histograms[l]
                /\ histogramBins' = histogramBins
                /\ \A c \in CurrentCells :
                      spatialMemory'[c[1]][c[2]] =
                          IF c \in BlockAndNeighbours THEN TRUE
                          ELSE spatialMemory[c[1]][c[2]]
         ELSE /\ currentLabels' = currentLabels
              /\ pixels' = pixels
              /\ histograms' = histograms
              /\ histogramBins' = histogramBins]_vars

\* Witness of C22: a block of level 1 of a three-level engine, with cleared
\* flags around, has just been moved.
C22_Witness ==
    /\ lastMove.kind = "block"
    /\ numberOfLevels = 3
    /\ lastMove.level = 1
    /\ \E c \in CurrentCells : ~spatialMemory[c[1]][c[2]]

\* The clamped neighbour of the pixel about to be examined in the d-th
\* direction, and its label.
PixelNeighbourIn(d) ==
    neighbourOf(ComparisonOrder[d], iPos, jPos,
                Min(iPos + 1, height - 1), Max(iPos - 1, 0),
                Min(jPos + 1, width - 1), Max(jPos - 1, 0))
PixelNeighbourLabel(d) == currentLabels[PixelNeighbourIn(d)[1]][PixelNeighbourIn(d)[2]]

\* The share of the bin of the pixel about to be examined in superpixel s:
\* its bin count divided by the pixel count of s.
BinShare(s) ==
    <<histograms[numberOfLevels][BucketOf(s)[1]][BucketOf(s)[2]][histogramBins[iPos][jPos]],
      pixels[numberOfLevels][BucketOf(s)[1]][BucketOf(s)[2]]>>

\* The pixels of the image in the rows ra..rb and the columns ca..cb.
ClippedWindow(ra, rb, ca, cb) ==
    (Max(0, ra)..Min(height - 1, rb)) \X (Max(0, ca)..Min(width - 1, cb))

\* The window that extends neighborhoodSize pixels on every side of the
\* rectangle formed by the pixel and its d-th neighbour.
SpanningWindow(d) ==
    ClippedWindow(Min(iPos, PixelNeighbourIn(d)[1]) - neighborhoodSize,
                  Max(iPos, PixelNeighbourIn(d)[1]) + neighborhoodSize,
                  Min(jPos, PixelNeighbourIn(d)[2]) - neighborhoodSize,
                  Max(jPos, PixelNeighbourIn(d)[2]) + neighborhoodSize)

\* The squares of side 2*neighborhoodSize + 1 that hold the pixel and its
\* d-th neighbour, clipped to the image.
SquareWindows(d) ==
    {ClippedWindow(a, a + 2 * neighborhoodSize, b, b + 2 * neighborhoodSize) :
        a \in (Max(iPos, PixelNeighbourIn(d)[1]) - 2 * neighborhoodSize)
                  ..Min(iPos, PixelNeighbourIn(d)[1]),
        b \in (Max(jPos, PixelNeighbourIn(d)[2]) - 2 * neighborhoodSize)
                  ..Min(jPos, PixelNeighbourIn(d)[2])}

LabelCount(win, s) == Cardinality({p \in win : currentLabels[p[1]][p[2]] = s})

\* proposed * c_to - current * c_from over a window, proposed - current
\* when neighborhoodSize is 0.
ValueOver(win, d) ==
    IF neighborhoodSize > 0
    THEN FSub(FScale(BinShare(PixelNeighbourLabel(d)),
                     LabelCount(win, PixelNeighbourLabel(d))),
              FScale(BinShare(currentLabels[iPos][jPos]),
                     LabelCount(win, currentLabels[iPos][jPos])))
    ELSE FSub(BinShare(PixelNeighbourLabel(d)), BinShare(currentLabels[iPos][jPos]))

\* The pixel about to be examined in histogram mode has its flag set, a
\* neighbour of another label and a superpixel with pixels to spare: its
\* candidates are scored.
PixelCandidatesScored ==
    /\ pc = "pixel"
    /\ ctor.kind = "SEEDSRevised"
    /\ spatialMemory[iPos][jPos]
    /\ \E d \in 1..4 : PixelNeighbourLabel(d) # currentLabels[iPos][jPos]
    /\ pixelCountAllows(SuperpixelAtPosition[1], SuperpixelAtPosition[2])

\* The directions a pixel may move in: the neighbour label differs and the
\* guard passes.
PixelDirections ==
    {d \in 1..4 : /\ PixelNeighbourLabel(d) # currentLabels[iPos][jPos]
                  /\ ~GuardAt(ComparisonOrder[d], iPos, jPos)}

\* The step applies the pixel move the values value[d] call for: none when
\* no direction has a positive value, else one of largest positive value.
LargestPositiveAccepted(value) ==
    LET positive == {d \in PixelDirections : FGreater(value[d], FZero)}
    IN IF positive = {}
       THEN lastMove' = NoMove /\ currentLabels' = currentLabels
       ELSE \E d \in positive :
               /\ \A e \in positive : ~FGreater(value[e], value[d])
               /\ lastMove'.kind = "pixel"
               /\ lastMove'.dir = ComparisonOrder[d]
               /\ currentLabels'[iPos][jPos] = PixelNeighbourLabel(d)

\* The value scorePixelUpdate returns for the d-th neighbour of the pixel
\* about to be examined.
ComparedValue(d) ==
    scorePixelUpdate(iPos, jPos, PixelNeighbourIn(d)[1], PixelNeighbourIn(d)[2],
                     BinShare(currentLabels[iPos][jPos]), BinShare(PixelNeighbourLabel(d)))

FEqual(a, b) == a[1] * b[2] = b[1] * a[2]

\* The value compared for every candidate is the one over the spanning
\* window.
SpanningValueCompared ==
    \A d \in 1..4 :
        PixelNeighbourLabel(d) # currentLabels[iPos][jPos] =>
            FEqual(ComparedValue(d), ValueOver(SpanningWindow(d), d))

\* C24 (amended): in histogram mode with neighborhoodSize N > 0 the value
\* compared for a pixel move is proposed*c_to - current*c_from, where
\* current and proposed are the pixel's bin count divided by the pixel
\* count of the source and of the destination superpixel and c_from, c_to
\* count the pixels of the source and destination label inside the window
\* that extends N pixels on every side of the two-pixel rectangle formed by
\* the pixel and the candidate neighbour ((2N+1) x (2N+2) pixels, clipped
\* to the image); with N = 0 the value is proposed - current.  A direction
\* of largest positive value is accepted.
C24_PixelValueOverSpanningWindow ==
    [][PixelCandidatesScored =>
          /\ SpanningValueCompared
          /\ LargestPositiveAccepted([d \in 1..4 |-> ValueOver(SpanningWindow(d), d)])]_vars

\* Witness of C24: with neighborhoodSize 1 a pixel is about to be examined
\* that has two directions of positive value over windows not clipped by
\* the image border.
C24_Witness ==
    /\ PixelCandidatesScored
    /\ neighborhoodSize = 1
    /\ \E d \in PixelDirections : \E e \in PixelDirections :
          /\ d # e
          /\ FGreater(ValueOver(SpanningWindow(d), d), FZero)
          /\ FGreater(ValueOver(SpanningWindow(e), e), FZero)
          /\ Cardinality(SpanningWindow(d)) = 12

\* C24 as stated: with neighborhoodSize N > 0 the value compared for every
\* candidate is proposed*c_to - current*c_from with the counts taken inside
\* a (2N+1) x (2N+1) window holding the pixel and the neighbour, whichever
\* square of that size it is.
C24_PixelValueOverSquareWindow ==
    (PixelCandidatesScored /\ neighborhoodSize > 0) =>
        \A d \in 1..4 :
            PixelNeighbourLabel(d) # currentLabels[iPos][jPos] =>
                \E w \in SquareWindows(d) : FEqual(ComparedValue(d), ValueOver(w, d))

---------------------------------------------------------------------------
(* Equalized binning of images of one and of three channels.               *)

\* Images of one row whose pixels are vectors of dims channel values: the
\* sampled pixels (every 5th column) and the second pixel vary, the other
\* pixels repeat the second one.
BinningWidths == {1, 6, 11}
PixelVectors(dims) == [1..dims -> ImageValues]
BinningImages(W, dims) ==
    {[i \in 0..0 |-> [j \in 0..(W - 1) |->
          IF j % sampleStep = 0 THEN s[j \div sampleStep] ELSE o]] :
        s \in [0..((W - 1) \div sampleStep) -> PixelVectors(dims)],
        o \in PixelVectors(dims)}

\* histogramDimensions = image->channels().
histogramDimensions == Len(image[0][0])

\* channels[k][v] after the integral arrays are computed: the number of
\* sampled pixels whose channel k is at most v.
channelIntegral(k, v) ==
    Cardinality({p \in samplePixels : image[p[1]][p[2]][k] <= v})

\* histogramBins[i][j] of the equalized binning for one and three channels.
equalizedBin(i, j) ==
    IF histogramDimensions = 1
    THEN channelIntegral(1, image[i][j][1]) \div equiHeight
    ELSE channelIntegral(1, image[i][j][1]) \div equiHeight
         + numberOfBins * (channelIntegral(2, image[i][j][2]) \div equiHeight)
         + numberOfBins * numberOfBins
               * (channelIntegral(3, image[i][j][3]) \div equiHeight)

\* pow(numberOfBins, histogramDimensions) for one and three channels.
powBins == IF histogramDimensions = 1 THEN numberOfBins
           ELSE numberOfBins * numberOfBins * numberOfBins

\* An engine about to compute the bins of its image.
InitBinning ==
    \E W \in BinningWidths, dims \in {1, 3}, nBins \in 1..MaxBinCount :
        \E img \in BinningImages(W, dims) :
            /\ pc = "binning"
            /\ ctor = ExplicitCall("SEEDSRevised", 2, 1, 1, nBins, 1, DefaultConfidence)
            /\ image = img
            /\ width = W
            /\ height = 1
            /\ numberOfLevels = 2
            /\ minimumBlockWidth = 1
            /\ minimumBlockHeight = 1
            /\ numberOfBins = nBins
            /\ neighborhoodSize = 1
            /\ minimumConfidence = DefaultConfidence
            /\ minimumNumberOfSublabels = 1
            /\ histogramBins = <<>>
            /\ currentLabels = <<>>
            /\ spatialMemory = <<>>
            /\ currentLevel = 0
            /\ currentBlockWidthNumber = 0
            /\ currentBlockHeightNumber = 0
            /\ superpixelWidthNumber = 0
            /\ superpixelHeightNumber = 0
            /\ pixels = <<>>
            /\ histograms = <<>>
            /\ histogramSize = 0
            /\ iterations = 0
            /\ iteration = 0
            /\ iPos = 0
            /\ jPos = 0
            /\ lastMove = NoMove
            /\ examined = [k \in 0..0 |-> 0]
            /\ log = <<>>
            /\ first = NoRun
            /\ calls = 0
            /\ spatialWeight = FZero
            /\ means = <<>>
            /\ initializedMeans = FALSE
            /\ meansInitializations = 0

\* The first part of initializeHistograms(): histogramSize and the bin of
\* every pixel.
EqualizedBinning ==
    /\ pc = "binning"
    /\ histogramSize' = powBins
    /\ histogramBins' = [i \in 0..(height - 1) |-> [j \in 0..(width - 1) |->
                             equalizedBin(i, j)]]
    /\ pc' = "binned"
    /\ UNCHANGED <<configVars, labelVars, pixels, histograms, loopVars, ghostVars, meanVars>>

NextBinning == EqualizedBinning

SpecBinning == InitBinning /\ [][NextBinning]_vars

\* The cumulative sample rank of channel k of pixel (i, j), and that rank
\* divided by ceil((sampleCount + 1) / b).
SampleRank(k, i, j) ==
    Cardinality({p \in samplePixels : image[p[1]][p[2]][k] <= image[i][j][k]})
CeilDiv(a, b) == IF a % b = 0 THEN a \div b ELSE (a \div b) + 1
RankBin(k, i, j) ==
    SampleRank(k, i, j) \div CeilDiv(Cardinality(samplePixels) + 1, numberOfBins)
Cube(b) == b * b * b

\* C27: for every bin count b >= 1, one or three channels and every image,
\* the per-channel bin of every pixel (its cumulative sample rank divided by
\* ceil((sampleCount + 1) / b)) is in [0, b - 1], its joint bin index is
\* b0 + b*b1 + b*b*b2 and lies in [0, b^channels), and b^channels is the
\* size of the histogram arrays.
C27_EqualizedBinsInsideHistogram ==
    pc = "binned" =>
        \A i \in 0..(height - 1), j \in 0..(width - 1) :
            /\ \A k \in 1..histogramDimensions : RankBin(k, i, j) \in 0..(numberOfBins - 1)
            /\ histogramBins[i][j] =
                  IF histogramDimensions = 1 THEN RankBin(1, i, j)
                  ELSE RankBin(1, i, j) + numberOfBins * RankBin(2, i, j)
                       + numberOfBins * numberOfBins * RankBin(3, i, j)
            /\ histogramSize = IF histogramDimensions = 1 THEN numberOfBins
                               ELSE Cube(numberOfBins)
            /\ histogramBins[i][j] \in 0..(histogramSize - 1)

\* Witness of C27: a three-channel image binned with three bins per channel
\* has a pixel in the last bin of the histogram and another in a bin whose
\* three per-channel bins differ.
C27_Witness ==
    /\ pc = "binned"
    /\ histogramDimensions = 3
    /\ numberOfBins = 3
    /\ \E j \in 0..(width - 1) : histogramBins[0][j] = histogramSize - 1
    /\ \E j \in 0..(width - 1) :
          /\ RankBin(1, 0, j) # RankBin(2, 0, j)
          /\ RankBin(2, 0, j) # RankBin(3, 0, j)
          /\ RankBin(1, 0, j) # RankBin(3, 0, j)

\* Some candidate geometry of the auto-sizing gives a superpixel.
SomeValidGeometry ==
    \E c \in AutoChoices : SuperpixelFormula(width, height, c[1], c[2], c[3]) >= 1

\* C29: for every desired count S >= 1 and every image size for which some
\* candidate (w, h, L) gives at least one superpixel, the geometry the
\* auto-sizing constructor selects has at least one superpixel, so that the
\* number of superpixel columns the label-to-grid mapping divides by is not
\* zero.
C29_AutoSizeSelectsSuperpixel ==
    (Built /\ ctor.mode = "auto" /\ ctor.desiredNumberOfSuperpixels >= 1
           /\ SomeValidGeometry) =>
        /\ SuperpixelFormula(width, height, minimumBlockWidth, minimumBlockHeight,
                             numberOfLevels) >= 1
        /\ getBlockWidthNumber(numberOfLevels) >= 1

\* The cell about to be visited has its flag clear and is skipped.
CellSkipped == pc \in {"block", "pixel"} /\ ~spatialMemory[iPos][jPos]

\* The move that examining the cell about to be visited would apply: the
\* decision of performBlockUpdate / performPixelUpdate past the flag test.
MoveIfExamined ==
    IF pc = "block" THEN blockDecision(iPos, jPos) ELSE pixelDecision(iPos, jPos)

\* C30: skipping the cells whose dirty flag is clear changes nothing: the run
\* that skips them and the run that examines every cell in every sweep apply
\* the same moves and end with the same labels.  The two runs are in the
\* same labels and statistics up to the first skipped cell that would move
\* if it were examined, and differ from there on; so they agree exactly when
\* no skipped cell would move.
C30_SkippedCellsWouldNotMove ==
    CellSkipped => ~FGreater(MoveIfExamined.bestScore, FZero)

---------------------------------------------------------------------------
(* Engines of both scoring modes under a client that calls iterate() and   *)
(* goDownOneLevel() in any order, MaxCalls times at most.                  *)

\* The call that builds an engine of the given kind with the given levels,
\* minimum block and bins.  The explicit mean-pixels constructor hands its
\* arguments to the base constructor in the order numberOfBins,
\* numberOfLevels, minimumBlockWidth, minimumBlockHeight.
CallForEngine(kind, nLevels, mbw, mbh, nBins, nSize, mConf, sw) ==
    IF kind = "SEEDSRevisedMeanPixels"
    THEN [ExplicitCall(kind, mbw, mbh, nBins, nLevels, nSize, mConf)
              EXCEPT !.spatialWeight = sw]
    ELSE ExplicitCall(kind, nLevels, mbw, mbh, nBins, nSize, mConf)

\* The engines <<W, H, numberOfLevels, minimumBlockWidth, minimumBlockHeight>>,
\* and the spatial weights of mean mode.
MeanGeometries == {<<4, 4, 2, 1, 1>>, <<5, 4, 2, 1, 1>>, <<4, 9, 3, 1, 1>>}
SpatialWeights == {FZero, DefaultSpatialWeight}

\* Images split by a vertical line, with a bright rectangle inside, with a
\* bright rectangle in the upper left corner, with a bright column, and
\* bright but for the first pixel.
MeanImages(W, H) ==
    ClientImages(W, H)
        \cup {RectImage(W, H, 1, H - 1, 1, W - 1, 255, 0),
              RectImage(W, H, 0, H - 1, 0, W - 1, 255, 0),
              RectImage(W, H, 1, H, 0, 1, 255, 0),
              RectImage(W, H, 0, 1, 0, 1, 0, 255)}

InitMeans ==
    \E g \in MeanGeometries, kind \in Kinds, nSize \in 0..1 :
        \E img \in MeanImages(g[1], g[2]),
           sw \in IF kind = "SEEDSRevisedMeanPixels" THEN SpatialWeights
                  ELSE {DefaultSpatialWeight} :
            Unbuilt(CallForEngine(kind, g[3], g[4], g[5], NumBins, nSize,
                                  DefaultConfidence, sw),
                    img, g[1], g[2])

NextMeans ==
    \/ Construct \/ Initialize \/ CallIterate \/ CallGoDownOneLevel
    \/ BlockUpdate \/ GoDown \/ PixelUpdate

SpecMeans == InitMeans /\ [][NextMeans]_vars

---------------------------------------------------------------------------
(* Properties of mean-colour mode.                                         *)

MeanMode == ctor.kind = "SEEDSRevisedMeanPixels"

\* The pixels that carry label s, and the sum of their k-th feature (sample,
\* column, row).
PixelsOf(s) ==
    {q \in (0..(height - 1)) \X (0..(width - 1)) : currentLabels[q[1]][q[2]] = s}
FeatureSum(s, k) ==
    SumOver(PixelsOf(s), [q \in PixelsOf(s) |-> <<image[q[1]][q[2]], q[2], q[1]>>[k]])

\* C25: in mean-colour mode, after initializeMeans() and after every accepted
\* pixel move, the running feature sums (sample, x, y) of every superpixel are
\* the sums of the features of exactly the pixels that carry its label, and
\* its pixel count at the top level is the number of those pixels.
C25_MeanSumsFollowLabels ==
    (MeanMode /\ initializedMeans) =>
        \A s \in Labels :
            /\ \A k \in 1..3 : means[BucketOf(s)[1]][BucketOf(s)[2]][k] = FeatureSum(s, k)
            /\ pixels[numberOfLevels][BucketOf(s)[1]][BucketOf(s)[2]]
                   = Cardinality(PixelsOf(s))

\* Witness of C25: in mean-colour mode a pixel of sample 255 that is not in
\* the first row or column has just moved.
C25_Witness ==
    /\ MeanMode
    /\ initializedMeans
    /\ lastMove.kind = "pixel"
    /\ lastMove.i > 0
    /\ lastMove.j > 0
    /\ image[lastMove.i][lastMove.j] = 255

\* C26: in mean-colour mode the mean-feature tables are initialized exactly
\* once per initialized engine, after the descent to level 0 and before the
\* first pixel sweep: they are initialized during every pixel sweep, and no
\* operation, a further iterate() call on an engine at level 0 included,
\* initializes them a second time.
C26_MeansInitializedOnce ==
    MeanMode =>
        /\ pc = "pixel" => (initializedMeans /\ meansInitializations >= 1)
        /\ ~initializedMeans => meansInitializations = 0
        /\ meansInitializations <= 1

\* The block about to be examined is scored: its flag is set, a neighbour
\* has another label and the member-count rule lets it go.
BlockScored ==
    /\ CountRuleConsulted
    /\ blockCountAllows(iPos, jPos, SuperpixelAtPosition[1], SuperpixelAtPosition[2])

\* The pixel about to be examined is scored, in either mode.
PixelScored ==
    /\ pc = "pixel"
    /\ spatialMemory[iPos][jPos]
    /\ \E d \in 1..4 : PixelNeighbourLabel(d) # currentLabels[iPos][jPos]
    /\ pixelCountAllows(SuperpixelAtPosition[1], SuperpixelAtPosition[2])

\* The directions in which the block about to be examined is scored.
BlockDirections ==
    {d \in 1..4 : /\ NeighbourLabel(d) # currentLabels[iPos][jPos]
                  /\ ~GuardAt(ComparisonOrder[d], iPos, jPos)}

\* C28: for a geometry with at least one superpixel every divisor of the
\* scoring in iterate() is positive: for a block, its pixel count, the
\* pixel count of its superpixel less its own, and the pixel count of every
\* destination superpixel; for a pixel, the pixel counts of the source and
\* of every destination superpixel; and in mean-colour mode with
\* neighborhoodSize > 0 the neighbourhood counts countFrom and countTo of
\* every candidate are at least 1.
C28_ScoringDivisorsPositive ==
    /\ CountRuleConsulted => pixels[currentLevel][iPos][jPos] > 0
    /\ BlockScored =>
          /\ SuperpixelPixels(currentLabels[iPos][jPos])
                 - pixels[currentLevel][iPos][jPos] > 0
          /\ \A d \in BlockDirections : SuperpixelPixels(NeighbourLabel(d)) > 0
    /\ PixelScored =>
          /\ SuperpixelPixels(currentLabels[iPos][jPos]) > 0
          /\ \A d \in PixelDirections :
                /\ SuperpixelPixels(PixelNeighbourLabel(d)) > 0
                /\ (MeanMode /\ neighborhoodSize > 0) =>
                      /\ countFrom(iPos, jPos, PixelNeighbourIn(d)[1],
                                   PixelNeighbourIn(d)[2]) >= 1
                      /\ countTo(iPos, jPos, PixelNeighbourIn(d)[1],
                                 PixelNeighbourIn(d)[2]) >= 1

\* Witness of C28: in mean-colour mode with neighborhoodSize 1 a pixel is
\* scored towards a label that a single pixel of the window carries, after a
\* block of the same engine was moved.
C28_Witness ==
    /\ MeanMode
    /\ neighborhoodSize = 1
    /\ PixelScored
    /\ \E k \in 1..Len(log) : log[k].kind = "block"
    /\ \E d \in PixelDirections :
          countTo(iPos, jPos, PixelNeighbourIn(d)[1], PixelNeighbourIn(d)[2]) = 1

\* The position of a direction in the order of the comparisons.
DirectionIndex(dir) == CHOOSE d \in 1..4 : ComparisonOrder[d] = dir

\* The scores of the pixel about to be examined in its own superpixel and in
\* the superpixel of its d-th neighbour, in the mode of the engine, and the
\* value its move in that direction is judged by.
PixelStatusQuo ==
    virtualScoreCurrentPixelSegmentation(iPos, jPos, SuperpixelAtPosition[1],
                                         SuperpixelAtPosition[2])
PixelProposal(d) ==
    virtualScoreProposedPixelSegmentation(iPos, jPos, BucketOf(PixelNeighbourLabel(d))[1],
                                          BucketOf(PixelNeighbourLabel(d))[2])
PixelValue(d) ==
    virtualScorePixelUpdate(iPos, jPos, PixelNeighbourIn(d)[1], PixelNeighbourIn(d)[2],
                            PixelStatusQuo, PixelProposal(d))

\* The improvement of the scores themselves, without the neighbourhood
\* counts: proposed - current for shares of a histogram, current - proposed
\* for distances to a mean.
PixelRawImprovement(d) ==
    IF MeanMode THEN FMinus(PixelStatusQuo, PixelProposal(d))
    ELSE FMinus(PixelProposal(d), PixelStatusQuo)

\* The step moves the block about to be examined past the margin.
BlockMovePastMargin ==
    lastMove'.kind = "block" =>
        FGreater(CandidateScore(DirectionIndex(lastMove'.dir)),
                 FAdd(StatusQuoScore, minimumConfidence))

\* C23 (amended): every block move applied inside a sweep strictly improves
\* the score past the confidence margin: the score of the chosen candidate
\* exceeds the status quo by more than minimumConfidence, and a block
\* candidate whose improvement is positive but not above the margin is never
\* applied.  A pixel move, in either scoring mode, is applied when the value
\* it is judged by is positive; the margin takes no part in it.
C23_BlockMovesPastMarginPixelMovesPositive ==
    [][/\ pc = "block" => BlockMovePastMargin
       /\ (pc = "pixel" /\ lastMove'.kind = "pixel") =>
              FGreater(PixelValue(DirectionIndex(lastMove'.dir)), FZero)]_vars

\* Witness of C23: in mean-colour mode, after a block move, a pixel has just
\* moved.
C23_Witness ==
    /\ MeanMode
    /\ lastMove.kind = "pixel"
    /\ \E k \in 1..Len(log) : log[k].kind = "block"

\* C23 as stated: every move applied inside a sweep, block move or pixel
\* move in either mode, improves the score by more than minimumConfidence,
\* whether the improvement of a pixel move is taken with the neighbourhood
\* counts or without them.
C23_EveryMovePastMargin ==
    [][/\ pc = "block" => BlockMovePastMargin
       /\ (pc = "pixel" /\ lastMove'.kind = "pixel") =>
              \/ FGreater(PixelValue(DirectionIndex(lastMove'.dir)), minimumConfidence)
              \/ FGreater(PixelRawImprovement(DirectionIndex(lastMove'.dir)),
                          minimumConfidence)]_vars

====
